---- MODULE Spec2Model ----
(***************************************************************************)
(* PoDoFo indirect-object store (PdfIndirectObjectList): the keyed object  *)
(* container, its free list, the set of unavailable object numbers, the    *)
(* compressed-object-stream set and the garbage collector; and the parser  *)
(* (PdfParser) that walks the cross-reference sections of a file and fills *)
(* the store.                                                              *)
(*                                                                         *)
(* A reference is a pair <<object number, generation number>>.  A PDF      *)
(* value is a record [type, ref, items]: visitObject reads nothing else.   *)
(* A store is handled by the operators below as a record                   *)
(*   [objs, free, unavail, count, comp, term]                              *)
(* of the members m_Objects, m_FreeObjects, m_unavailableObjects,          *)
(* m_ObjectCount, m_compressedObjectStreams, and of the history set term   *)
(* (object numbers whose entry reached the terminal generation).           *)
(***************************************************************************)
EXTENDS Integers, Sequences, FiniteSets, TLC

VARIABLES
    m_Document,                \* "null" or "doc": the store's document pointer
    trailer,                   \* the value of the document's trailer object
    m_Objects,                 \* function: live reference -> value
    m_FreeObjects,             \* sequence of references (std::deque)
    m_unavailableObjects,      \* set of uint32
    m_ObjectCount,             \* highest object number seen
    m_compressedObjectStreams, \* set of uint32
    terminal,                  \* history: numbers retired at generation 65535
    maxSeen,                   \* history: highest number ever in store or free list
    last,                      \* the last call: [op, ref, val, flag, err]; flag is
                               \* markAsFree of RemoveObject, for PushObject
                               \* whether an object of that reference was found,
                               \* for AddFreeObject whether the reference was
                               \* on the free list already
    calls                      \* the number of calls made so far

\* The parser (PdfParser) that fills the store from a file
VARIABLES
    file,                      \* the input device: [chars, num, sections, ...]
    m_StrictParsing,           \* set before Parse, never changed by it
    m_Password,                \* "right" or "wrong": what Authenticate makes of it
    m_LoadOnDemand,
    pc,                        \* position of Parse: "idle", "xref", "objects"
    todo,                      \* the calls of the xref walk still to be made, the
                               \* next one first
    m_visitedXRefOffsets,      \* set of offsets
    m_entries,                 \* sequence of xref entries, object number i at i + 1
    m_Trailer,                 \* "null" or a dictionary: function key -> value
    m_IncrementalUpdateCount,
    m_XRefOffset,
    m_lastEOFOffset,
    m_magicOffset,
    m_HasXRefStream,
    m_Encrypt,                 \* "null" or "session"
    perr,                      \* what the last Parse that ended threw, or "none"
    reads,                     \* history: offsets whose section was read, in order
    parses,                    \* the number of Parse calls made so far
    withEncrypt,               \* the references of the objects of the store that
                               \* were given m_Encrypt (PdfParserObject::SetEncrypt)
    ret                        \* what the last call of a function of the parser
                               \* other than Parse returned: [op, arg, err, found,
                               \* value]

\* The observers of the store
VARIABLES
    m_observers,               \* sequence of observers (std::vector<Observer*>)
    notified,                  \* the last notification: [op, observers], the
                               \* observers called by it, in the order of the calls
    attached                   \* history: the observers attached and not detached
                               \* since, in the order they were attached

observerVars == <<m_observers, notified, attached>>

parserVars == <<file, m_StrictParsing, m_Password, m_LoadOnDemand, pc, todo,
                m_visitedXRefOffsets, m_entries, m_Trailer, m_IncrementalUpdateCount,
                m_XRefOffset, m_lastEOFOffset, m_magicOffset, m_HasXRefStream,
                m_Encrypt, perr, reads, parses, withEncrypt, ret>>

vars == <<m_Document, trailer, m_Objects, m_FreeObjects, m_unavailableObjects,
          m_ObjectCount, m_compressedObjectStreams, terminal, maxSeen, last, calls,
          parserVars, observerVars>>

-----------------------------------------------------------------------------
(* Program constants and the bounds of the model *)

MaxXRefGenerationNum == 65535

\* PdfCommon::GetMaxObjectCount(): the configured cap on object numbers
MaxObjectCount == 65536

\* a run makes at most MaxCalls calls on the store
MaxCalls == 4

\* first object number of the high range of the model
HighBase == MaxXRefGenerationNum - 1

\* the object numbers of the model: a low range, and a high range around the
\* terminal generation number up to the maximum object count
LowNums == {1, 2}

Nums == LowNums \cup (HighBase..MaxObjectCount)

-----------------------------------------------------------------------------
(* Values *)

NoRef == <<0, 0>>

VNull == [type |-> "Null", ref |-> NoRef, items |-> <<>>]

VName == [type |-> "Name", ref |-> NoRef, items |-> <<>>]

RefTo(r) == [type |-> "Reference", ref |-> r, items |-> <<>>]

ArrayOf(s) == [type |-> "Array", ref |-> NoRef, items |-> s]

\* a dictionary is kept as the sequence of the values of its pairs
DictOf(s) == [type |-> "Dictionary", ref |-> NoRef, items |-> s]

ObjValues == { ArrayOf(<<RefTo(<<2, 0>>), VNull>>),
               DictOf(<<ArrayOf(<<RefTo(<<1, 0>>)>>)>>) }

TrailerValues == { DictOf(<<>>), DictOf(<<VName, RefTo(<<1, 0>>)>>) }

\* the references PushObject is called with
PushRefs == { <<n, 0>> : n \in LowNums }
            \cup { <<1, MaxXRefGenerationNum - 1>>, <<HighBase, 0>>, <<MaxObjectCount, 0>> }

\* the references AddFreeObject is called with
FreeRefs == { <<1, 0>>, <<2, 1>> }

\* the references RemoveObject is called with, besides those of live objects
AbsentRefs == { <<1, 0>> }

\* the numbers AddCompressedObjectStream is called with
CompNums == { 1 }

\* CreateDictionaryObject(type, subtype): <<type.IsNull(), subtype.IsNull()>>
NameArgs == { <<FALSE, TRUE>> }

EmptyObjs == [r \in {} |-> VNull]

-----------------------------------------------------------------------------
(* PdfReference::operator< *)

RefLess(a, b) == IF a[1] = b[1] THEN a[2] < b[2] ELSE a[1] < b[1]

RECURSIVE SortRefs(_)
SortRefs(set) ==
    IF set = {} THEN <<>>
    ELSE LET m == CHOOSE x \in set : \A y \in set : x = y \/ RefLess(x, y)
         IN  <<m>> \o SortRefs(set \ {m})

RECURSIVE SortNums(_)
SortNums(set) ==
    IF set = {} THEN <<>>
    ELSE LET m == CHOOSE x \in set : \A y \in set : x <= y
         IN  <<m>> \o SortNums(set \ {m})

-----------------------------------------------------------------------------
(* The store operators, one per method of PdfIndirectObjectList *)

Store == [objs |-> m_Objects, free |-> m_FreeObjects, unavail |-> m_unavailableObjects,
          count |-> m_ObjectCount, comp |-> m_compressedObjectStreams, term |-> terminal]

\* GetObject: the object with exactly this reference, or none
HasObject(objs, ref) == ref \in DOMAIN objs

\* faulty variant: the count follows the last reference instead of the highest one
tryIncrementObjectCount_assign(count, ref) == ref[1]

tryIncrementObjectCount(count, ref) ==
    IF ref[1] > count THEN ref[1] ELSE count

\* faulty variant: an object already stored under the reference is kept
InsertObject_keepExisting(objs, ref, obj) ==
    [r \in (DOMAIN objs) \cup {ref} |-> IF r \in DOMAIN objs THEN objs[r] ELSE obj]

\* m_Objects.insert for a reference that may already be a key: the node of an
\* equal reference is extracted, its object deleted, and the node gets obj
InsertObject(objs, ref, obj) ==
    [r \in (DOMAIN objs) \cup {ref} |-> IF r = ref THEN obj ELSE objs[r]]

EraseObject(objs, ref) ==
    [r \in (DOMAIN objs) \ {ref} |-> objs[r]]

PushObject(S, ref, obj) ==
    [S EXCEPT !.objs = InsertObject(S.objs, ref, obj),
              !.count = tryIncrementObjectCount(S.count, ref)]

\* std::equal_range over the sorted deque: <<first, second>> as 1-based positions
LowerBound(free, ref) ==
    IF \E i \in 1..Len(free) : ~RefLess(free[i], ref)
    THEN CHOOSE i \in 1..Len(free) :
             /\ ~RefLess(free[i], ref)
             /\ \A j \in 1..(i - 1) : RefLess(free[j], ref)
    ELSE Len(free) + 1

UpperBound(free, ref) ==
    IF \E i \in 1..Len(free) : RefLess(ref, free[i])
    THEN CHOOSE i \in 1..Len(free) :
             /\ RefLess(ref, free[i])
             /\ \A j \in 1..(i - 1) : ~RefLess(ref, free[j])
    ELSE Len(free) + 1

InsertAt(seq, i, x) == SubSeq(seq, 1, i - 1) \o <<x>> \o SubSeq(seq, i, Len(seq))

\* faulty variant: the reference is appended instead of inserted at its sorted place
AddFreeObject_append(S, ref) ==
    IF \E i \in 1..Len(S.free) : S.free[i] = ref
    THEN S
    ELSE [S EXCEPT !.free = Append(S.free, ref),
                   !.count = tryIncrementObjectCount(S.count, ref)]

\* faulty variant: the object count does not follow a reference added by hand
AddFreeObject_keepCount(S, ref) ==
    LET first == LowerBound(S.free, ref)
        second == UpperBound(S.free, ref)
    IN  IF first # second /\ S.free # <<>>
        THEN S
        ELSE [S EXCEPT !.free = InsertAt(S.free, first, ref)]

\* faulty variant: a reference already on the list is inserted again
AddFreeObject_noDuplicateCheck(S, ref) ==
    [S EXCEPT !.free = InsertAt(S.free, LowerBound(S.free, ref), ref),
              !.count = tryIncrementObjectCount(S.count, ref)]

AddFreeObject(S, ref) ==
    LET first == LowerBound(S.free, ref)
        second == UpperBound(S.free, ref)
    IN  IF first # second /\ S.free # <<>>
        THEN S
        ELSE [S EXCEPT !.free = InsertAt(S.free, first, ref),
                       !.count = tryIncrementObjectCount(S.count, ref)]

\* gennum is uint32 to accommodate overflows from callers
tryAddFreeObject(S, objnum, gennum) ==
    IF gennum >= MaxXRefGenerationNum
    THEN [S EXCEPT !.unavail = @ \cup {gennum}, !.term = @ \cup {objnum}]
    ELSE AddFreeObject(S, <<objnum, gennum % 65536>>)

\* faulty variant: the generation number is not incremented
SafeAddFreeObject_sameGeneration(S, ref) == tryAddFreeObject(S, ref[1], ref[2])

SafeAddFreeObject(S, ref) == tryAddFreeObject(S, ref[1], ref[2] + 1)

\* faulty variant: the scan does not check the maximum object count
RECURSIVE nextObjectNum_noLimit(_, _)
nextObjectNum_noLimit(n, unavail) ==
    IF n \notin unavail THEN n ELSE nextObjectNum_noLimit(n + 1, unavail)

\* the scan of getNextFreeObject: the first number from n on that is not
\* unavailable, or -1 when the scan passes the maximum object count.  The
\* numbers are uint32 in the code; every number of the model is far below
\* 2^32 - 1, so no increment wraps
RECURSIVE nextObjectNum(_, _)
nextObjectNum(n, unavail) ==
    IF n > MaxObjectCount THEN -1
    ELSE IF n \notin unavail THEN n
    ELSE nextObjectNum(n + 1, unavail)

getNextFreeObject(S) ==
    IF S.free # <<>>
    THEN [err |-> "none", ref |-> Head(S.free), S |-> [S EXCEPT !.free = Tail(S.free)]]
    ELSE LET n == nextObjectNum(S.count + 1, S.unavail)
         IN  IF n = -1
             THEN [err |-> "ValueOutOfRange", ref |-> NoRef, S |-> S]
             ELSE [err |-> "none", ref |-> <<n, 0>>, S |-> S]

addNewObject(S, obj) ==
    LET g == getNextFreeObject(S)
    IN  IF g.err # "none"
        THEN g
        ELSE [err |-> "none", ref |-> g.ref, S |-> PushObject(g.S, g.ref, obj)]

\* faulty variant: a compressed object stream is removed like any object
removeObject_noContainerCheck(S, ref, markAsFree) ==
    LET S1 == IF markAsFree THEN SafeAddFreeObject(S, ref) ELSE S
    IN  [err |-> "none", S |-> [S1 EXCEPT !.objs = EraseObject(S1.objs, ref)]]

removeObject(S, ref, markAsFree) ==
    IF ref[1] \in S.comp
    THEN [err |-> "InternalLogic", S |-> S]
    ELSE LET S1 == IF markAsFree THEN SafeAddFreeObject(S, ref) ELSE S
         IN  [err |-> "none", S |-> [S1 EXCEPT !.objs = EraseObject(S1.objs, ref)]]

\* err "nullptr": nothing was found and nothing is returned
RemoveObject(S, ref, markAsFree) ==
    IF ~HasObject(S.objs, ref)
    THEN [err |-> "nullptr", S |-> S]
    ELSE removeObject(S, ref, markAsFree)

AddCompressedObjectStream(S, objectNum) ==
    [S EXCEPT !.comp = @ \cup {objectNum}]

-----------------------------------------------------------------------------
(* Garbage collection *)

RECURSIVE visitObject(_, _, _), visitChildren(_, _, _, _)

\* the set referencedObjects after visiting obj
visitObject(obj, referencedObjects, objs) ==
    CASE obj.type = "Reference" ->
            IF obj.ref \in referencedObjects
            THEN referencedObjects
            ELSE IF ~HasObject(objs, obj.ref)
                 THEN referencedObjects \cup {obj.ref}
                 ELSE visitObject(objs[obj.ref], referencedObjects \cup {obj.ref}, objs)
      [] obj.type = "Array" -> visitChildren(obj.items, 1, referencedObjects, objs)
      [] obj.type = "Dictionary" -> visitChildren(obj.items, 1, referencedObjects, objs)
      [] OTHER -> referencedObjects

visitChildren(items, i, referencedObjects, objs) ==
    IF i > Len(items) THEN referencedObjects
    ELSE visitChildren(items, i + 1, visitObject(items[i], referencedObjects, objs), objs)

\* the loop over m_compressedObjectStreams.  *GetObject(ref) of a container
\* that is not in the store dereferences a null pointer: ub is what the build
\* does then, "crash" (the process ends) or "skip" (nothing is visited)
RECURSIVE visitCompressed(_, _, _, _, _)
visitCompressed(ids, i, referencedObjects, objs, ub) ==
    IF i > Len(ids) THEN [crash |-> FALSE, refs |-> referencedObjects]
    ELSE LET ref == <<ids[i], 0>>
         IN  IF ref \in referencedObjects
             THEN visitCompressed(ids, i + 1, referencedObjects, objs, ub)
             ELSE IF ~HasObject(objs, ref)
                  THEN IF ub = "crash"
                       THEN [crash |-> TRUE, refs |-> referencedObjects]
                       ELSE visitCompressed(ids, i + 1, referencedObjects, objs, ub)
                  ELSE visitCompressed(ids, i + 1,
                                       visitObject(objs[ref], referencedObjects, objs), objs, ub)

\* faulty variant: referenced objects are deleted too
IsGarbage_ignoreReferenced(ref, referencedObjects, comp) == ref[1] \notin comp

\* faulty variant: compressed object streams are deleted when not referenced
IsGarbage_ignoreCompressed(ref, referencedObjects, comp) == ref \notin referencedObjects

\* an object is deleted if not referenced and not a compressed object stream
IsGarbage(ref, referencedObjects, comp) ==
    ref \notin referencedObjects /\ ref[1] \notin comp

\* the loop over m_Objects in key order
RECURSIVE sweepObjects(_, _, _, _)
sweepObjects(S, refs, i, referencedObjects) ==
    IF i > Len(refs) THEN S
    ELSE IF IsGarbage(refs[i], referencedObjects, S.comp)
         THEN LET S1 == SafeAddFreeObject(S, refs[i])
              IN  sweepObjects([S1 EXCEPT !.objs = EraseObject(S1.objs, refs[i])],
                               refs, i + 1, referencedObjects)
         ELSE sweepObjects(S, refs, i + 1, referencedObjects)

CollectGarbage(S, doc, tr, ub) ==
    IF doc = "null"
    THEN [err |-> "none", S |-> S]
    ELSE LET fromTrailer == visitObject(tr, {}, S.objs)
             v == visitCompressed(SortNums(S.comp), 1, fromTrailer, S.objs, ub)
         IN  IF v.crash
             THEN [err |-> "crash", S |-> S]
             ELSE [err |-> "none",
                   S |-> sweepObjects(S, SortRefs(DOMAIN S.objs), 1, v.refs)]

-----------------------------------------------------------------------------
(* The input device.  A file is a sequence of one-character strings, read by *)
(* 0-based offset: the byte at offset p is chars[p + 1].  "N" is a number    *)
(* token, whose value the file record gives; "S" is the first token of an   *)
(* xref stream object; the body of a section is not spelled in characters.  *)

PDF_XREF_BUF == 512

Min(a, b) == IF a < b THEN a ELSE b

TokStartXRef == <<"s", "t", "a", "r", "t", "x", "r", "e", "f">>

TokStartRef == <<"s", "t", "a", "r", "t", "r", "e", "f">>

TokXRef == <<"x", "r", "e", "f">>

TokEOF == <<"%", "%", "E", "O", "F">>

IsCharWhitespace(c) == c \in {" ", "\n"}

\* the offset of the end of the line that holds offset pos
RECURSIVE EndOfLine(_, _)
EndOfLine(chars, pos) ==
    IF pos >= Len(chars) \/ chars[pos + 1] = "\n" THEN pos
    ELSE EndOfLine(chars, pos + 1)

\* whitespace and comments (% to the end of the line) are skipped
RECURSIVE SkipBlank(_, _)
SkipBlank(chars, pos) ==
    IF pos >= Len(chars) THEN Len(chars)
    ELSE IF IsCharWhitespace(chars[pos + 1]) THEN SkipBlank(chars, pos + 1)
    ELSE IF chars[pos + 1] = "%" THEN SkipBlank(chars, EndOfLine(chars, pos))
    ELSE pos

\* the end of the contiguous literal that starts at pos
RECURSIVE RunEnd(_, _)
RunEnd(chars, pos) ==
    IF pos >= Len(chars) \/ IsCharWhitespace(chars[pos + 1]) \/ chars[pos + 1] = "%"
    THEN pos
    ELSE RunEnd(chars, pos + 1)

\* PdfTokenizer::TryReadNextToken with the device at pos: the token and the
\* position the device is left at
TryReadNextToken(chars, pos) ==
    LET b == SkipBlank(chars, pos)
    IN  IF b >= Len(chars)
        THEN [ok |-> FALSE, tok |-> <<>>, pos |-> Len(chars)]
        ELSE [ok |-> TRUE, tok |-> SubSeq(chars, b + 1, RunEnd(chars, b)),
              pos |-> RunEnd(chars, b)]

\* PdfTokenizer::ReadNextNumber: the next token must be a number.  The cell
\* "N" spells the number f.num; a file of two revisions has the cell "M" as
\* well, after the startxref of the older one, which spells f.mid
ReadNextNumber(f, pos) ==
    LET t == TryReadNextToken(f.chars, pos)
    IN  IF t.ok /\ t.tok = <<"N">>
        THEN [err |-> "none", num |-> f.num, pos |-> t.pos]
        ELSE IF t.ok /\ t.tok = <<"M">>
        THEN [err |-> "none", num |-> f.mid, pos |-> t.pos]
        ELSE [err |-> "InvalidNumber", num |-> 0, pos |-> t.pos]

\* InputStreamDevice::Seek to an absolute offset: an offset outside the file
\* is refused or clamped, as the device at hand does (f.seek)
Seek(f, target) ==
    IF target >= 0 /\ target <= Len(f.chars) THEN [err |-> "none", pos |-> target]
    ELSE IF f.seek = "raise" THEN [err |-> "InvalidDeviceOperation", pos |-> 0]
    ELSE [err |-> "none", pos |-> IF target < 0 THEN 0 ELSE Len(f.chars)]

\* faulty variant: the search takes the first occurrence in the window
findTokenBackward_first(f, token, range, searchEnd) ==
    LET searchSize == Min(searchEnd, range)
        from == searchEnd - searchSize
        hits == { i \in 0..(searchSize - Len(token)) :
                    SubSeq(f.chars, from + i + 1, from + i + Len(token)) = token }
    IN  IF hits = {} THEN Seek(f, from - 1)
        ELSE Seek(f, from + (CHOOSE i \in hits : \A j \in hits : i <= j))

\* findTokenBackward: the window is the searchSize bytes before searchEnd; i
\* is the index in the window the loop stops at, negative if nothing matched
findTokenBackward(f, token, range, searchEnd) ==
    LET searchSize == Min(searchEnd, range)
        from == searchEnd - searchSize
        hits == { i \in 0..(searchSize - Len(token)) :
                    SubSeq(f.chars, from + i + 1, from + i + Len(token)) = token }
        i == IF hits # {} THEN CHOOSE h \in hits : \A j \in hits : j <= h
             ELSE IF searchSize < Len(token) THEN searchSize - Len(token)
             ELSE -1
    IN  IF i = 0 THEN [err |-> "InternalLogic", pos |-> searchEnd]
        ELSE Seek(f, searchEnd - (searchSize - i))

\* checkEOFMarker: the error and m_lastEOFOffset
checkEOFMarker(f, strict) ==
    LET size == Len(f.chars)
        at(p) == SubSeq(f.chars, p + 1, p + Len(TokEOF)) = TokEOF
        hits == { p \in 0..(size - Len(TokEOF)) : at(p) }
    IN  IF size < Len(TokEOF)
        THEN [err |-> Seek(f, size - Len(TokEOF)).err, lastEOF |-> 0]
        ELSE IF strict
        THEN [err |-> IF at(size - Len(TokEOF)) THEN "none" ELSE "InvalidEOFToken",
              lastEOF |-> 0]
        ELSE IF hits = {}
        THEN [err |-> "InvalidEOFToken", lastEOF |-> 0]
        ELSE [err |-> "none", lastEOF |-> CHOOSE p \in hits : \A q \in hits : q <= p]

\* findXRef: the error, the offset read after the keyword plus the magic
\* offset, and the position the device is left at
findXRef(f, strict, lastEOF, magicOffset) ==
    LET b1 == findTokenBackward(f, TokStartXRef, PDF_XREF_BUF, lastEOF)
        t1 == TryReadNextToken(f.chars, b1.pos)
        b2 == findTokenBackward(f, TokStartRef, PDF_XREF_BUF, lastEOF)
        t2 == TryReadNextToken(f.chars, b2.pos)
        fail(e) == [err |-> e, offset |-> 0, pos |-> 0]
        number(pos) == LET n == ReadNextNumber(f, pos)
                       IN  [err |-> n.err, offset |-> n.num + magicOffset, pos |-> n.pos]
    IN  IF b1.err # "none" THEN fail(b1.err)
        ELSE IF t1.ok /\ t1.tok = TokStartXRef THEN number(t1.pos)
        ELSE IF strict THEN fail("InvalidXRef")
        ELSE IF b2.err # "none" THEN fail(b2.err)
        ELSE IF t2.ok /\ t2.tok = TokStartRef THEN number(t2.pos)
        ELSE fail("InvalidXRef")

-----------------------------------------------------------------------------
(* The files of the model.  A file is laid out as a header, four object     *)
(* cells, three section slots "A", "B", "C" (the oldest revision first) and *)
(* the tail: the startxref keyword, the number after it, the EOF marker.     *)

Header == <<"%", "P", "D", "F", "-", "1", ".", "7", "\n">>

ObjCells == <<"O", "O", "O", "O">>

SlotChars(kind) ==
    IF kind = "table" THEN TokXRef \o <<"\n">> ELSE <<"S", " ", " ", " ", "\n">>

FileTail(keyword) == keyword \o <<" ", "N", "\n">> \o TokEOF

\* the ways a file of the model departs from that layout: in the bytes at its
\* end, or in the subsections of its newest section
TailVariants == { "eofNotLast", "noEOF", "twoEOF" }

SubsVariants == { "zero", "obj0", "obj0zero", "broken", "negFirst", "negFirstEmpty",
                 "negCount", "badType", "badEOL", "noNumber", "zeroGen", "freeMax" }

Variants == {"plain"} \cup TailVariants \cup SubsVariants

\* the tail of a file: the marker may be followed by a byte, be missing, or be
\* there twice
VariantTail(keyword, variant) ==
    CASE variant = "eofNotLast" -> FileTail(keyword) \o <<"\n">>
      [] variant = "noEOF" -> keyword \o <<" ", "N", "\n">>
      [] variant = "twoEOF" -> FileTail(keyword) \o <<"\n">> \o TokEOF
      [] OTHER -> FileTail(keyword)

Slots == {"A", "B", "C"}

\* the offset of the k-th object cell, of a slot, and of the tail
OffObj(k) == Len(Header) + k - 1

Off(slot) ==
    Len(Header) + Len(ObjCells)
    + (CASE slot = "A" -> 0 [] slot = "B" -> 1 [] slot = "C" -> 2) * Len(SlotChars("table"))

OffTail == Off("C") + Len(SlotChars("table"))

FileSize(keyword) == OffTail + Len(FileTail(keyword))

\* a value of a trailer dictionary: its type, its number (the object number of
\* a reference) and the revision that wrote it
Val(kind, n, rev) == [kind |-> kind, n |-> n, rev |-> rev]

TrailerKeys == {"Size", "Root", "Encrypt", "Info", "ID"}

\* an entry as a section spells it: type "n", "f" or, in a stream, "c", or
\* another character; eol tells whether its last two bytes are an end of line
Raw(type, variant, generation) ==
    [type |-> type, variant |-> variant, generation |-> generation, eol |-> TRUE]

\* a subsection: the two numbers of its header and its entries; numeric tells
\* whether the header is made of numbers
Sub(first, entries) ==
    [first |-> first, count |-> Len(entries), entries |-> entries, numeric |-> TRUE]

\* the subsections of the section in a slot; an xref stream has one more range,
\* with object 5 kept in the object stream 4 at index 0
SlotSubs(slot, kind) ==
    (CASE slot = "A" -> << Sub(0, << Raw("f", 0, 65535), Raw("n", OffObj(1), 0),
                                    Raw("n", OffObj(2), 0) >>) >>
       [] slot = "B" -> << Sub(1, << Raw("n", OffObj(3), 0) >>),
                           Sub(3, << Raw("n", OffObj(4), 0) >>) >>
       [] slot = "C" -> << Sub(3, << Raw("f", 0, 1), Raw("n", OffObj(4), 0) >>) >>)
    \o (IF kind = "stream" THEN << Sub(5, << Raw("c", 4, 0) >>) >> ELSE << >>)

\* the subsections of the newest section of a file that departs from the
\* layout in them
VariantSubs(variant) ==
    LET newest == Raw("n", OffObj(4), 0)
    IN  CASE variant = "zero" -> << Sub(3, << Raw("n", 0, 0), newest >>) >>
          [] variant = "obj0" -> << Sub(0, << Raw("n", OffObj(3), 0) >>) >>
          [] variant = "obj0zero" -> << Sub(0, << Raw("n", 0, 0) >>) >>
          [] variant = "broken" -> << Sub(3, << Raw("n", 1, 0), newest >>) >>
          [] variant = "negFirst" -> << Sub(-1, << newest >>) >>
          [] variant = "negFirstEmpty" ->
                << Sub(3, << Raw("f", 0, 1), newest >>), Sub(-1, << >>) >>
          [] variant = "negCount" -> << [Sub(3, << newest >>) EXCEPT !.count = -1] >>
          [] variant = "badType" -> << Sub(3, << Raw("x", 0, 1), newest >>) >>
          [] variant = "badEOL" ->
                << Sub(3, << [Raw("f", 0, 1) EXCEPT !.eol = FALSE], newest >>) >>
          [] variant = "noNumber" ->
                << [Sub(0, << >>) EXCEPT !.numeric = FALSE], Sub(4, << newest >>) >>
          [] variant = "zeroGen" -> << Sub(3, << Raw("n", 0, 1), newest >>) >>
          [] variant = "freeMax" -> << Sub(3, << Raw("f", 0, 65535), newest >>) >>

\* the object in the k-th object cell: its value, whether it is an encryption
\* dictionary, whether its dictionary has Type XRef, and the objects (number
\* and value) it holds when it is an object stream
ObjAt(k) ==
    CASE k = 1 -> [val |-> DictOf(<<RefTo(<<4, 0>>)>>), encrypt |-> FALSE, xref |-> FALSE,
                   holds |-> <<>>]
      [] k = 2 -> [val |-> DictOf(<<VName>>), encrypt |-> TRUE, xref |-> FALSE,
                   holds |-> <<>>]
      [] k = 3 -> [val |-> DictOf(<<RefTo(<<4, 0>>), VName>>), encrypt |-> FALSE,
                   xref |-> TRUE, holds |-> <<>>]
      [] k = 4 -> [val |-> DictOf(<<VName, VName>>), encrypt |-> FALSE, xref |-> FALSE,
                   holds |-> <<[num |-> 5, val |-> ArrayOf(<<RefTo(<<1, 0>>)>>)]>>]

\* the trailer dictionary of the section in a slot, without Prev and XRefStm
SlotDict(slot) ==
    CASE slot = "A" -> [k \in {"Size", "Root", "Info", "ID", "Encrypt", "Foo"} |->
                           CASE k = "Size" -> Val("Number", 3, "A")
                             [] k = "Encrypt" -> Val("Reference", 2, "A")
                             [] k = "Root" -> Val("Reference", 1, "A")
                             [] OTHER -> Val("String", 0, "A")]
      [] slot = "B" -> [k \in {"Size", "Root"} |->
                           IF k = "Size" THEN Val("Number", 4, "B")
                           ELSE Val("Reference", 1, "B")]
      [] slot = "C" -> [k \in {"Size", "Root", "Bar"} |->
                           CASE k = "Size" -> Val("Number", 6, "C")
                             [] k = "Root" -> Val("Reference", 1, "C")
                             [] OTHER -> Val("String", 0, "C")]

\* a dictionary with one more pair
WithKey(dict, key, val) ==
    [k \in DOMAIN dict \cup {key} |-> IF k = key THEN val ELSE dict[k]]

\* prev and xrefstm are a sequence of no or one offset
Section(slot, kind, prev, xrefstm) ==
    LET d0 == SlotDict(slot)
        d1 == IF prev = <<>> THEN d0 ELSE WithKey(d0, "Prev", Val("Number", prev[1], slot))
        d2 == IF xrefstm = <<>> THEN d1
              ELSE WithKey(d1, "XRefStm", Val("Number", xrefstm[1], slot))
    IN  [kind |-> kind, subs |-> SlotSubs(slot, kind), dict |-> d2]

\* the offsets a Prev of the model points to, slot by slot: its own section,
\* another one (ahead or back), and for the newest one a non-positive number
PrevChoices(slot) ==
    {<<>>}
    \cup (CASE slot = "A" -> { <<Off("A")>>, <<Off("C")>> }
            [] slot = "B" -> { <<Off("A")>>, <<Off("B")>> }
            [] slot = "C" -> { <<Off("B")>>, <<Off("C")>>, <<0>> })

\* only the newest section may be a hybrid one, with its stream in slot "B"
XRefStmChoices(slot) ==
    IF slot = "C" THEN { <<>>, <<Off("B")>> } ELSE { <<>> }

\* the number after the startxref keyword: the newest section, or an offset
\* beyond the end of the file
StartChoices(keyword) == { Off("C"), FileSize(keyword) + 1 }

Keywords == { TokStartXRef, TokStartRef }

SeekModes == { "raise", "clamp" }

KindsOf == [Slots -> {"table", "stream"}]

\* the choices a file of the layout is made with
PlainChoices ==
    [kinds : KindsOf,
     prevs : [Slots -> UNION { PrevChoices(sl) : sl \in Slots }],
     stms : [Slots -> UNION { XRefStmChoices(sl) : sl \in Slots }],
     keyword : Keywords,
     num : UNION { StartChoices(k) : k \in Keywords },
     seek : SeekModes,
     variant : {"plain"}]

\* the choices a file that departs from the layout is made with
VariantChoices ==
    [kinds : { [sl \in Slots |-> "table"] },
     prevs : { [sl \in Slots |-> CASE sl = "C" -> <<Off("B")>>
                                   [] sl = "B" -> b
                                   [] sl = "A" -> <<>>] : b \in { <<>>, <<Off("A")>> } },
     stms : { [sl \in Slots |-> <<>>] },
     keyword : { TokStartXRef },
     num : { Off("C") },
     seek : SeekModes,
     variant : TailVariants \cup SubsVariants]

FileChoices == PlainChoices \cup VariantChoices

\* Prev of an xref stream, if any, is positive, and only a table has XRefStm;
\* a file that departs from the layout is made of three tables, the newest
\* one after the other, with or without the oldest
WellFormed(c) ==
    /\ \A sl \in Slots :
        /\ c.prevs[sl] \in PrevChoices(sl)
        /\ c.stms[sl] \in XRefStmChoices(sl)
        /\ c.kinds[sl] = "stream" => (c.prevs[sl] # <<0>> /\ c.stms[sl] = <<>>)
    /\ c.num \in StartChoices(c.keyword)
    /\ c.variant # "plain" =>
        /\ \A sl \in Slots : c.kinds[sl] = "table" /\ c.stms[sl] = <<>>
        /\ c.prevs["C"] = <<Off("B")>> /\ c.prevs["A"] = <<>>
        /\ c.prevs["B"] \in { <<>>, <<Off("A")>> }
        /\ c.keyword = TokStartXRef /\ c.num = Off("C")

FileOf(c) ==
    [chars |-> Header \o ObjCells \o SlotChars(c.kinds["A"]) \o SlotChars(c.kinds["B"])
               \o SlotChars(c.kinds["C"]) \o VariantTail(c.keyword, c.variant),
     num |-> c.num,
     mid |-> 0,
     seek |-> c.seek,
     sections |-> [o \in { Off(sl) : sl \in Slots } |->
                      LET sl == CHOOSE x \in Slots : Off(x) = o
                          sec == Section(sl, c.kinds[sl], c.prevs[sl], c.stms[sl])
                      IN  IF sl = "C" /\ c.variant \in SubsVariants
                          THEN [sec EXCEPT !.subs = VariantSubs(c.variant)]
                          ELSE sec],
     objects |-> [o \in { OffObj(k) : k \in 1..Len(ObjCells) } |->
                     ObjAt(o - Len(Header) + 1)]]

Files == { FileOf(c) : c \in { x \in FileChoices : WellFormed(x) } }

-----------------------------------------------------------------------------
(* The xref walk.  The parser is handled by the operators below as a record  *)
(*   [visited, entries, trailer, count, xref, hasStm, reads]                 *)
(* of m_visitedXRefOffsets, m_entries, m_Trailer, m_IncrementalUpdateCount,  *)
(* m_XRefOffset, m_HasXRefStream and the history of the sections read.       *)
(* An error is a record [code, info].                                        *)

MAX_XREF_SESSION_COUNT == 512

Err(code, info) == [code |-> code, info |-> info]

NoErr == Err("none", "")

UnparsedEntry ==
    [Parsed |-> FALSE, Type |-> "Unknown", Offset |-> 0, ObjectNumber |-> 0,
     Index |-> 0, Generation |-> 0]

\* PdfXRefEntries::Enlarge: extends, never shrinks
Enlarge(entries, newSize) ==
    IF newSize <= Len(entries) THEN entries
    ELSE entries \o [i \in 1..(newSize - Len(entries)) |-> UnparsedEntry]
\* faulty variant: a slot is written when not parsed, but not marked Parsed
WriteEntry_unparsed(entry, raw, magicOffset) ==
    IF entry.Parsed THEN entry
    ELSE CASE raw.type = "f" ->
                 [entry EXCEPT !.ObjectNumber = raw.variant,
                               !.Generation = raw.generation, !.Type = "Free"]
           [] raw.type = "n" ->
                 [entry EXCEPT !.Offset = raw.variant + magicOffset,
                               !.Generation = raw.generation, !.Type = "InUse"]

\* faulty variant: a slot is written whether or not it was parsed already
WriteEntry_overwrite(entry, raw, magicOffset) ==
    CASE raw.type = "f" ->
            [entry EXCEPT !.ObjectNumber = raw.variant, !.Generation = raw.generation,
                          !.Type = "Free", !.Parsed = TRUE]
      [] raw.type = "n" ->
            [entry EXCEPT !.Offset = raw.variant + magicOffset,
                          !.Generation = raw.generation,
                          !.Type = "InUse", !.Parsed = TRUE]

\* the body of the loop of ReadXRefSubsection for one entry of a table: a slot
\* that is Parsed is left alone
WriteEntry(entry, raw, magicOffset) ==
    IF entry.Parsed THEN entry
    ELSE CASE raw.type = "f" ->
                 [entry EXCEPT !.ObjectNumber = raw.variant,
                               !.Generation = raw.generation,
                               !.Type = "Free", !.Parsed = TRUE]
           [] raw.type = "n" ->
                 [entry EXCEPT !.Offset = raw.variant + magicOffset,
                               !.Generation = raw.generation,
                               !.Type = "InUse", !.Parsed = TRUE]

\* the same for one record of an xref stream: type 0 is free, 1 in use, 2
\* compressed (the object stream and the index in it, generation 0)
WriteStreamEntry(entry, raw) ==
    IF entry.Parsed THEN entry
    ELSE CASE raw.type = "f" ->
                 [entry EXCEPT !.ObjectNumber = raw.variant,
                               !.Generation = raw.generation,
                               !.Type = "Free", !.Parsed = TRUE]
           [] raw.type = "n" ->
                 [entry EXCEPT !.Offset = raw.variant, !.Generation = raw.generation,
                               !.Type = "InUse", !.Parsed = TRUE]
           [] raw.type = "c" ->
                 [entry EXCEPT !.ObjectNumber = raw.variant, !.Index = raw.generation,
                               !.Generation = 0,
                               !.Type = "Compressed", !.Parsed = TRUE]

\* the loop of ReadXRefSubsection over the entries of a table, from index on:
\* [err, entries, index], index the number of entries read from the device.
\* An entry is looked at only when its slot is not Parsed
RECURSIVE readTableEntries(_, _, _, _)
readTableEntries(entries, sub, index, magicOffset) ==
    IF index >= sub.count THEN [err |-> NoErr, entries |-> entries, index |-> index]
    ELSE LET raw == sub.entries[index + 1]
             objIndex == sub.first + index
             entry == entries[objIndex + 1]
             stop(info) == [err |-> Err("InvalidXRef", info), entries |-> entries,
                            index |-> index + 1]
         IN  IF ~entry.Parsed /\ raw.type \notin {"n", "f"} THEN stop("type")
             ELSE IF ~entry.Parsed /\ ~raw.eol THEN stop("")
             ELSE readTableEntries(
                      [entries EXCEPT ![objIndex + 1] = WriteEntry(entry, raw, magicOffset)],
                      sub, index + 1, magicOffset)

\* ReadXRefSubsection: [err, entries, index]
ReadXRefSubsection(entries, sub, magicOffset, isTable) ==
    IF sub.first < 0 \/ sub.count < 0
    THEN [err |-> Err("InvalidXRef", "negative"), entries |-> entries, index |-> 0]
    ELSE LET big == Enlarge(entries, sub.first + sub.count)
         IN  IF isTable THEN readTableEntries(big, sub, 0, magicOffset)
             ELSE [err |-> NoErr,
                   entries |->
                     [i \in 1..Len(big) |->
                         IF i - 1 >= sub.first /\ i - 1 < sub.first + sub.count
                         THEN WriteStreamEntry(big[i], sub.entries[i - sub.first])
                         ELSE big[i]],
                   index |-> sub.count]

\* the loop over the subsections of a table: [err, entries, broke, atTrailer];
\* an InvalidNumber, InvalidXRef or UnexpectedEOF of a subsection ends the
\* loop, in either mode, and atTrailer tells whether the device is then at the
\* token "trailer": the subsection was the last one and its entries were all
\* read.  A header that is no number is never the last thing of a section here
RECURSIVE ReadSubsections(_, _, _, _, _)
ReadSubsections(entries, subs, k, magicOffset, isTable) ==
    IF k > Len(subs)
    THEN [err |-> NoErr, entries |-> entries, broke |-> FALSE, atTrailer |-> TRUE]
    ELSE IF k - 1 = MAX_XREF_SESSION_COUNT
    THEN [err |-> Err("InvalidEOFToken", ""), entries |-> entries, broke |-> FALSE,
          atTrailer |-> FALSE]
    ELSE IF ~subs[k].numeric
    THEN [err |-> NoErr, entries |-> entries, broke |-> TRUE, atTrailer |-> FALSE]
    ELSE LET r == ReadXRefSubsection(entries, subs[k], magicOffset, isTable)
         IN  IF r.err # NoErr
             THEN [err |-> NoErr, entries |-> r.entries, broke |-> TRUE,
                   atTrailer |-> k = Len(subs) /\ r.index = Len(subs[k].entries)]
             ELSE ReadSubsections(r.entries, subs, k + 1, magicOffset, isTable)

\* faulty variant: every key of an older trailer is copied when absent
mergeTrailer_allKeys(mt, tr) ==
    [k \in DOMAIN mt \cup DOMAIN tr |-> IF k \in DOMAIN mt THEN mt[k] ELSE tr[k]]

\* faulty variant: the keys of an older trailer overwrite those present
mergeTrailer_overwrite(mt, tr) ==
    [k \in DOMAIN mt \cup (DOMAIN tr \cap TrailerKeys) |->
        IF k \in DOMAIN tr \cap TrailerKeys THEN tr[k] ELSE mt[k]]

\* mergeTrailer: Size, Root, Encrypt, Info and ID are copied when not present
mergeTrailer(mt, tr) ==
    [k \in DOMAIN mt \cup (DOMAIN tr \cap TrailerKeys) |->
        IF k \in DOMAIN mt THEN mt[k] ELSE tr[k]]

\* m_Trailer, <<>> when null and <<dictionary>> otherwise, after the
\* dictionary of a section was read: the first one read is kept whole
TakeOrMerge(P, dict) ==
    IF P.trailer = <<>> THEN <<dict>> ELSE <<mergeTrailer(P.trailer[1], dict)>>

TokTrailer == <<"t", "r", "a", "i", "l", "e", "r">>

Item(op, offset) == [op |-> op, offset |-> offset]
\* faulty variant: a positive Prev counts only when its offset was not visited
PrevPart_countUnvisited(P, n, skipFollowPrevious) ==
    IF n > 0 /\ n \notin P.visited
    THEN [P |-> [P EXCEPT !.count = @ + 1],
          next |-> IF ~skipFollowPrevious THEN <<n>> ELSE <<>>]
    ELSE [P |-> P, next |-> <<>>]

\* faulty variant: a positive Prev is read whether or not it was visited
PrevPart_followVisited(P, n, skipFollowPrevious) ==
    IF n > 0
    THEN [P |-> [P EXCEPT !.count = @ + 1],
          next |-> IF ~skipFollowPrevious THEN <<n>> ELSE <<>>]
    ELSE [P |-> P, next |-> <<>>]

\* the part of readNextTrailer about Prev, for a Prev that is the number n:
\* [P, next], next the offset to read now, if any
PrevPart(P, n, skipFollowPrevious) ==
    IF n > 0
    THEN [P |-> [P EXCEPT !.count = @ + 1],
          next |-> IF ~skipFollowPrevious /\ n \notin P.visited THEN <<n>> ELSE <<>>]
    ELSE [P |-> P, next |-> <<>>]

\* ReadXRefStreamContents up to the call of ReadXRefContents: [err, P, next]
ReadXRefStreamContents(P, f, offset, skipFollowPrevious) ==
    LET sk == Seek(f, offset)
        sec == f.sections[offset]
        rs == ReadSubsections(P.entries, sec.subs, 1, 0, FALSE)
        P1 == [P EXCEPT !.trailer = TakeOrMerge(P, sec.dict),
                        !.entries = rs.entries,
                        !.reads = Append(@, offset)]
        follows == "Prev" \in DOMAIN sec.dict /\ sec.dict["Prev"].n # offset
    IN  IF sk.err # "none" THEN [err |-> Err(sk.err, ""), P |-> P, next |-> <<>>]
        ELSE IF offset \notin DOMAIN f.sections \/ sec.kind # "stream"
        THEN [err |-> Err("InvalidObject", ""), P |-> P, next |-> <<>>]
        ELSE IF ~follows THEN [err |-> NoErr, P |-> P1, next |-> <<>>]
        ELSE [err |-> NoErr, P |-> [P1 EXCEPT !.count = @ + 1],
              next |-> IF skipFollowPrevious THEN <<>> ELSE <<sec.dict["Prev"].n>>]

\* readNextTrailer after the token "trailer", for the dictionary that follows
\* it, up to the first call of ReadXRefContents: [err, P, items]
readNextTrailer(P, f, dict, skipFollowPrevious) ==
    LET P1 == [P EXCEPT !.trailer = TakeOrMerge(P, dict)]
        hybrid == "XRefStm" \in DOMAIN dict /\ dict["XRefStm"].kind = "Number"
        r == ReadXRefStreamContents(P1, f, dict["XRefStm"].n, skipFollowPrevious)
        P2 == IF hybrid THEN r.P ELSE P1
        hasPrev == "Prev" \in DOMAIN dict /\ dict["Prev"].kind = "Number"
        pp == PrevPart(P2, dict["Prev"].n, skipFollowPrevious)
    IN  IF hybrid /\ r.err # NoErr THEN [err |-> r.err, P |-> r.P, items |-> <<>>]
        ELSE IF hybrid /\ r.next # <<>>
        THEN [err |-> NoErr, P |-> P2,
              items |-> <<Item("contents", r.next[1])>>
                        \o (IF hasPrev THEN <<Item("prev", dict["Prev"].n)>> ELSE <<>>)]
        ELSE IF ~hasPrev THEN [err |-> NoErr, P |-> P2, items |-> <<>>]
        ELSE [err |-> NoErr, P |-> pp.P,
              items |-> IF pp.next = <<>> THEN <<>> ELSE <<Item("contents", pp.next[1])>>]

\* the token "xref" followed by bytes that are not a section of the file: the
\* loop over the subsections ends at the first header that is not two numbers
\* and readNextTrailer wants the token "trailer" there
readRawSection(P, f, pos) ==
    LET peek == TryReadNextToken(f.chars, pos)
        n1 == ReadNextNumber(f, pos)
        n2 == ReadNextNumber(f, n1.pos)
        at == IF ~peek.ok THEN pos ELSE IF n1.err # "none" THEN n1.pos ELSE n2.pos
        t == TryReadNextToken(f.chars, at)
    IN  IF t.ok /\ t.tok = TokTrailer
        THEN [err |-> Err("InvalidObject", ""), P |-> P, items |-> <<>>]
        ELSE [err |-> Err("InvalidTrailer", ""), P |-> P, items |-> <<>>]

\* ReadXRefContents up to its first call of ReadXRefContents: [err, P, items],
\* items the calls still to make when this one went well
ReadXRefContents(P, f, offset, skipFollowPrevious, strict, lastEOF, magicOffset) ==
    LET P0 == [P EXCEPT !.visited = @ \cup {offset}]
        beyond == offset > Len(f.chars)
        fx == findXRef(f, strict, lastEOF, magicOffset)
        fb == findTokenBackward(f, TokXRef, PDF_XREF_BUF * 4, fx.pos)
        fallErr == IF fx.err # "none" THEN fx.err ELSE fb.err
        at == IF beyond THEN fb.pos ELSE offset
        P1 == IF beyond THEN [P0 EXCEPT !.xref = at] ELSE P0
        tok == TryReadNextToken(f.chars, at)
        st == ReadXRefStreamContents(P1, f, at, skipFollowPrevious)
        sec == f.sections[at]
        rs == ReadSubsections(P1.entries, sec.subs, 1, magicOffset, TRUE)
        P2 == [P1 EXCEPT !.entries = rs.entries, !.reads = Append(@, at)]
        fail(e, Q) == [err |-> e, P |-> Q, items |-> <<>>]
    IN  IF offset \in P.visited THEN fail(Err("InvalidXRef", "cycle"), P)
        ELSE IF beyond /\ fallErr # "none" THEN fail(Err(fallErr, ""), P0)
        ELSE IF ~tok.ok THEN fail(Err("InvalidXRef", ""), P1)
        ELSE IF tok.tok # TokXRef
        THEN IF st.err # NoErr THEN fail(st.err, st.P)
             ELSE IF st.next = <<>>
             THEN [err |-> NoErr, P |-> [st.P EXCEPT !.hasStm = TRUE], items |-> <<>>]
             ELSE [err |-> NoErr, P |-> st.P,
                   items |-> <<Item("contents", st.next[1]), Item("hasXRefStream", 0)>>]
        ELSE IF at \notin DOMAIN f.sections THEN readRawSection(P1, f, tok.pos)
        ELSE IF rs.err # NoErr THEN fail(rs.err, P2)
        ELSE IF ~rs.atTrailer THEN fail(Err("InvalidTrailer", ""), P2)
        ELSE readNextTrailer(P2, f, sec.dict, skipFollowPrevious)

-----------------------------------------------------------------------------
(* ReadObjects: the encryption gate, then the objects of the xref entries    *)

\* the references of objects loaded so far are PdfParserObject's; an object
\* is loaded from f.objects, and an offset that holds no object fails to load
Loads(f, offset) == offset \in DOMAIN f.objects

\* the first part of ReadObjects: [err, entries, encrypt]
gateEncrypt(P, f, password) ==
    LET tr == P.trailer[1]
        enc == tr["Encrypt"]
        i == enc.n
        at == P.entries[i + 1].Offset
        fail(e) == [err |-> Err(e, ""), entries |-> P.entries, encrypt |-> "null"]
    IN  IF P.trailer = <<>> THEN fail("InvalidTrailer")
        ELSE IF "Encrypt" \notin DOMAIN tr \/ enc.kind = "Null"
        THEN [err |-> NoErr, entries |-> P.entries, encrypt |-> "null"]
        ELSE IF enc.kind \notin {"Reference", "Dictionary"} THEN fail("InvalidEncryptionDict")
        ELSE IF enc.kind = "Reference" /\ (i <= 0 \/ i >= Len(P.entries))
        THEN fail("InvalidEncryptionDict")
        ELSE IF enc.kind = "Reference" /\ ~Loads(f, at) THEN fail("InvalidObject")
        ELSE IF enc.kind = "Reference" /\ ~f.objects[at].encrypt
        THEN [err |-> Err("InvalidEncryptionDict", ""),
              entries |-> [P.entries EXCEPT ![i + 1].Parsed = FALSE],
              encrypt |-> "null"]
        ELSE LET entries == IF enc.kind = "Reference"
                            THEN [P.entries EXCEPT ![i + 1].Parsed = FALSE]
                            ELSE P.entries
             IN  IF "ID" \notin DOMAIN tr
                 THEN [err |-> Err("InvalidEncryptionDict", "No document ID"),
                       entries |-> entries, encrypt |-> "session"]
                 ELSE IF password # "right"
                 THEN [err |-> Err("InvalidPassword", ""),
                       entries |-> entries, encrypt |-> "session"]
                 ELSE [err |-> NoErr, entries |-> entries, encrypt |-> "session"]

\* faulty variant: an object whose Type is XRef keeps the session
pushedSession_keepXRef(f, offset, encrypt) == encrypt

\* the encryption session the object pushed for the entry at offset carries:
\* the object is given m_Encrypt, and one whose dictionary has Type XRef is
\* replaced by a new object that is given none
pushedSession(f, offset, encrypt) ==
    IF encrypt # "null" /\ f.objects[offset].xref THEN "null" ELSE encrypt

\* the loop of readObjectsInternal over the entries, from i on:
\* [err, S, comp, bad, enc], comp the compressed entries met, as pairs
\* <<object stream, object>>, bad the objects pushed whose load will fail, enc
\* the objects pushed that were given the encryption session.  Without a
\* session an object is pushed unread; with one its dictionary is looked at,
\* which loads it: an object that fails to load is freed, and one whose Type
\* is XRef is pushed anew without the session
RECURSIVE readEntries(_, _, _, _, _, _, _, _, _)
readEntries(S, entries, i, f, encrypt, strict, comp, bad, enc) ==
    IF i >= Len(entries)
    THEN [err |-> NoErr, S |-> S, comp |-> comp, bad |-> bad, enc |-> enc]
    ELSE LET entry == entries[i + 1]
             reference == <<i, entry.Generation % 65536>>
             go(S1, comp1, bad1, enc1) ==
                 readEntries(S1, entries, i + 1, f, encrypt, strict, comp1, bad1, enc1)
             stop(e) == [err |-> e, S |-> S, comp |-> comp, bad |-> bad, enc |-> enc]
         IN  IF ~entry.Parsed
             THEN go(IF i # 0 THEN AddFreeObject(S, <<i, 1>>) ELSE S, comp, bad, enc)
             ELSE CASE entry.Type = "InUse" ->
                         IF entry.Offset > 0
                         THEN IF encrypt # "null"
                              THEN IF ~Loads(f, entry.Offset)
                                   THEN go(SafeAddFreeObject(S, reference), comp, bad, enc)
                                   ELSE go(PushObject(S, reference,
                                                      f.objects[entry.Offset].val),
                                           comp, bad \ {reference},
                                           IF pushedSession(f, entry.Offset, encrypt) = "null"
                                           THEN enc \ {reference}
                                           ELSE enc \cup {reference})
                              ELSE IF Loads(f, entry.Offset)
                              THEN go(PushObject(S, reference, f.objects[entry.Offset].val),
                                      comp, bad \ {reference}, enc \ {reference})
                              ELSE go(PushObject(S, reference, VNull), comp,
                                      bad \cup {reference}, enc \ {reference})
                         ELSE IF entry.Generation = 0
                         THEN IF strict THEN stop(Err("InvalidXRef", "0 offset"))
                              ELSE go(AddFreeObject(S, <<i, 1>>), comp, bad, enc)
                         ELSE go(S, comp, bad, enc)
                    [] entry.Type = "Free" ->
                         go(IF i # 0 THEN SafeAddFreeObject(S, reference) ELSE S,
                            comp, bad, enc)
                    [] entry.Type = "Compressed" ->
                         go(S, comp \cup {<<entry.ObjectNumber, i>>}, bad, enc)
                    [] OTHER -> stop(Err("InvalidEnumValue", ""))

\* PdfObjectStreamParser::Parse: the objects of the stream whose number is
\* asked for are pushed with generation 0
RECURSIVE pushHeld(_, _, _, _)
pushHeld(S, holds, k, nums) ==
    IF k > Len(holds) THEN S
    ELSE pushHeld(IF holds[k].num \in nums
                  THEN PushObject(S, <<holds[k].num, 0>>, holds[k].val) ELSE S,
                  holds, k + 1, nums)

\* the loop over the object streams, in the order of their numbers: each is
\* read when it is in the store, and registered whether or not it is: [err, S]
RECURSIVE readCompressed(_, _, _, _, _, _)
readCompressed(S, f, entries, streams, k, comp) ==
    IF k > Len(streams) THEN [err |-> NoErr, S |-> S]
    ELSE LET objNo == streams[k]
             nums == { c[2] : c \in { x \in comp : x[1] = objNo } }
             at == entries[objNo + 1].Offset
             next(S1) == readCompressed(AddCompressedObjectStream(S1, objNo), f, entries,
                                        streams, k + 1, comp)
         IN  IF ~HasObject(S.objs, <<objNo, 0>>) THEN next(S)
             ELSE IF ~Loads(f, at) \/ f.objects[at].holds = <<>>
             THEN [err |-> Err("InvalidObject", ""), S |-> S]
             ELSE next(pushHeld(S, f.objects[at].holds, 1, nums))

\* ReadObjects: [err, S, entries, encrypt, enc].  m_IgnoreBrokenObjects is
\* true in every Parse, reset sets it.  No catalog of the model has a Version
ReadObjects(P, S, f, password, strict, loadOnDemand) ==
    LET g == gateEncrypt(P, f, password)
        r == readEntries(S, g.entries, 0, f, g.encrypt, strict, {}, {}, {})
        c == readCompressed(r.S, f, g.entries, SortNums({ x[1] : x \in r.comp }), 1, r.comp)
        out(e, S1, enc) ==
            [err |-> e, S |-> S1, entries |-> g.entries, encrypt |-> g.encrypt,
             enc |-> enc]
    IN  IF g.err # NoErr THEN out(g.err, S, {})
        ELSE IF r.err # NoErr THEN out(r.err, r.S, r.enc)
        ELSE IF c.err # NoErr THEN out(c.err, c.S, r.enc)
        ELSE IF ~loadOnDemand /\ r.bad # {} THEN out(Err("InvalidObject", ""), c.S, r.enc)
        ELSE out(NoErr, c.S, r.enc)

-----------------------------------------------------------------------------
(* The state machine: one action per public operation *)

Call(op, ref, val, flag, err) ==
    [op |-> op, ref |-> ref, val |-> val, flag |-> flag, err |-> err]

Max(set) == CHOOSE x \in set : \A y \in set : y <= x

SetStore(S) ==
    /\ m_Objects' = S.objs
    /\ m_FreeObjects' = S.free
    /\ m_unavailableObjects' = S.unavail
    /\ m_ObjectCount' = S.count
    /\ m_compressedObjectStreams' = S.comp
    /\ terminal' = S.term
    /\ maxSeen' = Max({maxSeen} \cup { r[1] : r \in DOMAIN S.objs }
                             \cup { S.free[i][1] : i \in 1..Len(S.free) })

\* the bound of the model: a call is made while the budget lasts, by a process
\* that has not crashed
Called ==
    /\ last.err # "crash"
    /\ calls < MaxCalls
    /\ calls' = calls + 1
    /\ UNCHANGED <<m_Document, trailer, parserVars, observerVars>>

\* no file: a store that no parser fills
NoRet == [op |-> "none", arg |-> 0, err |-> "none", found |-> FALSE, value |-> 0]

NoFile == [chars |-> <<>>, num |-> 0, mid |-> 0, seek |-> "raise", sections |-> <<>>,
           objects |-> <<>>]

\* no notification was made
NoNotice == [op |-> "none", observers |-> <<>>]

\* the store after its constructor has no observer
NoObservers ==
    /\ m_observers = <<>>
    /\ notified = NoNotice
    /\ attached = <<>>

\* the parser after its constructor, which calls reset
ParserConstructed ==
    /\ pc = "idle"
    /\ todo = <<>>
    /\ m_visitedXRefOffsets = {}
    /\ m_entries = <<>>
    /\ m_Trailer = <<>>
    /\ m_IncrementalUpdateCount = 0
    /\ m_XRefOffset = 0
    /\ m_lastEOFOffset = 0
    /\ m_magicOffset = 0
    /\ m_HasXRefStream = FALSE
    /\ m_Encrypt = "null"
    /\ m_LoadOnDemand = FALSE
    /\ perr = NoErr
    /\ reads = <<>>
    /\ parses = 0
    /\ withEncrypt = {}
    /\ ret = NoRet

EmptyStore ==
    /\ m_Objects = EmptyObjs
    /\ m_FreeObjects = <<>>
    /\ m_unavailableObjects = {}
    /\ m_ObjectCount = 0
    /\ m_compressedObjectStreams = {}
    /\ terminal = {}
    /\ maxSeen = 0
    /\ last = Call("init", NoRef, VNull, FALSE, "none")
    /\ calls = 0

Init ==
    /\ \/ m_Document = "null" /\ trailer = DictOf(<<>>)
       \/ m_Document = "doc" /\ trailer \in TrailerValues
    /\ file = NoFile /\ m_StrictParsing = FALSE /\ m_Password = "wrong"
    /\ ParserConstructed
    /\ NoObservers
    /\ EmptyStore

DoCreateDictionaryObject ==
    \E args \in NameArgs :
        LET obj == DictOf((IF args[1] THEN <<>> ELSE <<VName>>)
                          \o (IF args[2] THEN <<>> ELSE <<VName>>))
            r == addNewObject(Store, obj)
        IN  /\ Called
            /\ SetStore(r.S)
            /\ last' = Call("CreateDictionaryObject", r.ref, VNull, FALSE, r.err)

DoCreateArrayObject ==
    LET r == addNewObject(Store, ArrayOf(<<>>))
    IN  /\ Called
        /\ SetStore(r.S)
        /\ last' = Call("CreateArrayObject", r.ref, VNull, FALSE, r.err)

DoCreateObject ==
    \E obj \in ObjValues :
        LET r == addNewObject(Store, obj)
        IN  /\ Called
            /\ SetStore(r.S)
            /\ last' = Call("CreateObject", r.ref, VNull, FALSE, r.err)

DoPushObject ==
    \E ref \in PushRefs, obj \in ObjValues :
        LET S == PushObject(Store, ref, obj)
        IN  /\ Called
            /\ SetStore(S)
            /\ last' = Call("PushObject", ref, obj, HasObject(m_Objects, ref), "none")

DoRemoveObject ==
    \E ref \in AbsentRefs \cup DOMAIN m_Objects, markAsFree \in BOOLEAN :
        LET r == RemoveObject(Store, ref, markAsFree)
        IN  /\ Called
            /\ SetStore(r.S)
            /\ last' = Call("RemoveObject", ref, VNull, markAsFree, r.err)

DoAddFreeObject ==
    \E ref \in FreeRefs :
        LET S == AddFreeObject(Store, ref)
        IN  /\ Called
            /\ SetStore(S)
            /\ last' = Call("AddFreeObject", ref, VNull,
                             \E i \in 1..Len(m_FreeObjects) : m_FreeObjects[i] = ref,
                             "none")

DoAddCompressedObjectStream ==
    \E objectNum \in CompNums :
        /\ Called
        /\ SetStore(AddCompressedObjectStream(Store, objectNum))
        /\ last' = Call("AddCompressedObjectStream", <<objectNum, 0>>, VNull, FALSE, "none")

DoCollectGarbage ==
    \E ub \in {"crash", "skip"} :
        LET r == CollectGarbage(Store, m_Document, trailer, ub)
        IN  /\ Called
            /\ SetStore(r.S)
            /\ last' = Call("CollectGarbage", NoRef, VNull, FALSE, r.err)

Next ==
    \/ DoCreateDictionaryObject
    \/ DoCreateArrayObject
    \/ DoCreateObject
    \/ DoPushObject
    \/ DoRemoveObject
    \/ DoAddFreeObject
    \/ DoAddCompressedObjectStream
    \/ DoCollectGarbage

Spec == Init /\ [][Next]_vars

\* the store under allocation and removal only
NextAllocRemove ==
    \/ DoCreateDictionaryObject
    \/ DoCreateArrayObject
    \/ DoCreateObject
    \/ DoRemoveObject

SpecAllocRemove == Init /\ [][NextAllocRemove]_vars

-----------------------------------------------------------------------------
(* The store and its copy: the copy constructor takes the place of the      *)
(* store it was given, and the operations go on over the copy               *)

\* PdfIndirectObjectList(document, rhs): the members the initializer list
\* names and the objects are copied; m_compressedObjectStreams is not named
\* and starts empty, like m_observers
PdfIndirectObjectList(rhs) == [rhs EXCEPT !.comp = {}]

DoCopy ==
    /\ last.err # "crash"
    /\ calls < MaxCalls
    /\ calls' = calls + 1
    /\ m_Document' = "doc"
    /\ SetStore(PdfIndirectObjectList(Store))
    /\ m_observers' = <<>>
    /\ last' = Call("PdfIndirectObjectList", NoRef, VNull, FALSE, "none")
    /\ UNCHANGED <<trailer, parserVars, notified, attached>>

NextCopy ==
    \/ DoPushObject
    \/ DoRemoveObject
    \/ DoAddCompressedObjectStream
    \/ DoCollectGarbage
    \/ DoCopy

SpecCopy == Init /\ [][NextCopy]_vars

-----------------------------------------------------------------------------
(* The parser's state machine: Parse is made of the steps of the xref walk, *)
(* one per call of ReadXRefContents, and of ReadObjects                     *)

\* a parser is asked to parse at most MaxParses times
MaxParses == 2

Passwords == {"right", "wrong"}

PS == [visited |-> m_visitedXRefOffsets, entries |-> m_entries, trailer |-> m_Trailer,
       count |-> m_IncrementalUpdateCount, xref |-> m_XRefOffset,
       hasStm |-> m_HasXRefStream, reads |-> reads]

SetParser(P) ==
    /\ m_visitedXRefOffsets' = P.visited
    /\ m_entries' = P.entries
    /\ m_Trailer' = P.trailer
    /\ m_IncrementalUpdateCount' = P.count
    /\ m_XRefOffset' = P.xref
    /\ m_HasXRefStream' = P.hasStm
    /\ reads' = P.reads

\* faulty variant: reset forgets the incremental updates but keeps the entries
reset_keepEntries(P) ==
    [P EXCEPT !.trailer = <<>>, !.count = 0, !.xref = 0, !.hasStm = FALSE]

\* PdfParser::reset, as far as the record goes: m_visitedXRefOffsets is not
\* among the members it resets
reset(P) ==
    [P EXCEPT !.entries = <<>>, !.trailer = <<>>, !.count = 0, !.xref = 0,
              !.hasStm = FALSE]

\* the catch of Parse for an error other than InvalidPassword: reset, rethrow
Thrown(e, P) ==
    /\ SetParser(reset(P))
    /\ m_magicOffset' = 0
    /\ m_lastEOFOffset' = 0
    /\ m_Encrypt' = "null"
    /\ m_LoadOnDemand' = FALSE
    /\ perr' = e
    /\ pc' = "idle"
    /\ todo' = <<>>

PDF_VERSION_LENGHT == 3

PDF_MAGIC_LENGHT == 8

Magic == <<"%", "P", "D", "F", "-">>

\* PoDoFo::GetPdfVersion: the version of three characters, 0 for Unknown
GetPdfVersion(str) ==
    IF Len(str) = 3 /\ str[2] = "."
    THEN CASE str[1] = "1" /\ str[3] \in {"0", "1", "2", "3", "4", "5", "6", "7"} ->
                 10 + (CASE str[3] = "0" -> 0 [] str[3] = "1" -> 1 [] str[3] = "2" -> 2
                         [] str[3] = "3" -> 3 [] str[3] = "4" -> 4 [] str[3] = "5" -> 5
                         [] str[3] = "6" -> 6 [] str[3] = "7" -> 7)
           [] str[1] = "2" /\ str[3] = "0" -> 20
           [] OTHER -> 0
    ELSE 0

\* ReadMagicWord: whether ch ends the magic word, and the cursor after it
ReadMagicWord(ch, cursoridx) ==
    IF ch = Magic[cursoridx + 1]
    THEN IF cursoridx = 4 THEN [found |-> TRUE, cursoridx |-> cursoridx]
         ELSE [found |-> FALSE, cursoridx |-> cursoridx + 1]
    ELSE [found |-> FALSE, cursoridx |-> 0]

\* the loop of IsPdfFile: the position after the magic word, -1 at the end of
\* the file
RECURSIVE scanMagic(_, _, _)
scanMagic(chars, pos, cursoridx) ==
    IF pos >= Len(chars) THEN -1
    ELSE LET r == ReadMagicWord(chars[pos + 1], cursoridx)
         IN  IF r.found THEN pos + 1 ELSE scanMagic(chars, pos + 1, r.cursoridx)

\* IsPdfFile: what it returns, m_magicOffset and m_PdfVersion
IsPdfFile(f) ==
    LET end == scanMagic(f.chars, 0, 0)
        versionStr == SubSeq(f.chars, end + 1, end + PDF_VERSION_LENGHT)
        version == GetPdfVersion(versionStr)
    IN  IF end = -1 \/ end + PDF_VERSION_LENGHT > Len(f.chars)
        THEN [ok |-> FALSE, magicOffset |-> 0, version |-> 0]
        ELSE [ok |-> version # 0,
              magicOffset |-> end + PDF_VERSION_LENGHT - PDF_MAGIC_LENGHT,
              version |-> version]

storeUntouched ==
    UNCHANGED <<m_Document, trailer, m_Objects, m_FreeObjects, m_unavailableObjects,
                m_ObjectCount, m_compressedObjectStreams, terminal, maxSeen, last, calls,
                withEncrypt, ret, observerVars>>

\* SetPassword, between two parses
DoSetPassword ==
    \E pw \in Passwords :
        /\ pc = "idle"
        /\ pw # m_Password
        /\ m_Password' = pw
        /\ storeUntouched
        /\ UNCHANGED <<file, m_StrictParsing, m_LoadOnDemand, pc, todo,
                       m_visitedXRefOffsets, m_entries, m_Trailer,
                       m_IncrementalUpdateCount, m_XRefOffset, m_lastEOFOffset,
                       m_magicOffset, m_HasXRefStream, m_Encrypt, perr, reads, parses>>

\* Parse up to the call of ReadXRefContents in ReadDocumentStructure
DoParse ==
    \E loadOnDemand \in BOOLEAN :
        LET P0 == [reset(PS) EXCEPT !.reads = <<>>]
            pdf == IsPdfFile(file)
            eof == checkEOFMarker(file, m_StrictParsing)
            fx == findXRef(file, m_StrictParsing, eof.lastEOF, pdf.magicOffset)
        IN  /\ pc = "idle"
            /\ parses < MaxParses
            /\ parses' = parses + 1
            /\ storeUntouched
            /\ UNCHANGED <<file, m_StrictParsing, m_Password>>
            /\ IF ~pdf.ok THEN Thrown(Err("InvalidPDF", ""), P0)
               ELSE IF eof.err # "none" THEN Thrown(Err(eof.err, ""), P0)
               ELSE IF fx.err # "none" THEN Thrown(Err(fx.err, ""), P0)
               ELSE /\ SetParser([P0 EXCEPT !.xref = fx.offset])
                    /\ m_magicOffset' = pdf.magicOffset
                    /\ m_lastEOFOffset' = eof.lastEOF
                    /\ m_Encrypt' = "null"
                    /\ m_LoadOnDemand' = loadOnDemand
                    /\ perr' = perr
                    /\ pc' = "xref"
                    /\ todo' = <<Item("contents", fx.offset)>>

\* a step of the walk went well or threw
Walked(r) ==
    /\ storeUntouched
    /\ UNCHANGED <<file, m_StrictParsing, m_Password, parses>>
    /\ IF r.err # NoErr THEN Thrown(r.err, r.P)
       ELSE /\ SetParser(r.P)
            /\ todo' = r.items \o Tail(todo)
            /\ UNCHANGED <<pc, perr, m_magicOffset, m_lastEOFOffset, m_Encrypt,
                           m_LoadOnDemand>>

\* the next call of ReadXRefContents
DoReadXRefContents ==
    /\ pc = "xref" /\ todo # <<>> /\ Head(todo).op = "contents"
    /\ Walked(ReadXRefContents(PS, file, Head(todo).offset, FALSE, m_StrictParsing,
                               m_lastEOFOffset, m_magicOffset))

\* readNextTrailer goes on with Prev after the xref stream of a hybrid file
DoFollowPrev ==
    /\ pc = "xref" /\ todo # <<>> /\ Head(todo).op = "prev"
    /\ LET pp == PrevPart(PS, Head(todo).offset, FALSE)
       IN  Walked([err |-> NoErr, P |-> pp.P,
                   items |-> IF pp.next = <<>> THEN <<>>
                             ELSE <<Item("contents", pp.next[1])>>])

\* ReadXRefContents returns from the xref stream it read
DoSetHasXRefStream ==
    /\ pc = "xref" /\ todo # <<>> /\ Head(todo).op = "hasXRefStream"
    /\ Walked([err |-> NoErr, P |-> [PS EXCEPT !.hasStm = TRUE], items |-> <<>>])

\* the walk is over: ReadObjects, and Parse returns or throws
DoReadObjects ==
    LET r == ReadObjects(PS, Store, file, m_Password, m_StrictParsing, m_LoadOnDemand)
    IN  /\ pc = "xref" /\ todo = <<>>
        /\ SetStore(r.S)
        /\ withEncrypt' = r.enc
        /\ UNCHANGED <<m_Document, trailer, last, calls, ret, observerVars>>
        /\ UNCHANGED <<file, m_StrictParsing, m_Password, parses>>
        /\ IF r.err = NoErr \/ r.err.code = "InvalidPassword"
           THEN /\ SetParser([PS EXCEPT !.entries = r.entries])
                /\ m_Encrypt' = r.encrypt
                /\ perr' = r.err
                /\ pc' = "idle"
                /\ UNCHANGED <<todo, m_magicOffset, m_lastEOFOffset, m_LoadOnDemand>>
           ELSE Thrown(r.err, PS)

InitParse ==
    /\ m_Document = "doc" /\ trailer = DictOf(<<>>)
    /\ file \in Files
    /\ m_StrictParsing \in BOOLEAN
    /\ m_Password \in Passwords
    /\ ParserConstructed
    /\ NoObservers
    /\ EmptyStore

NextParse ==
    \/ DoSetPassword
    \/ DoParse
    \/ DoReadXRefContents
    \/ DoFollowPrev
    \/ DoSetHasXRefStream
    \/ DoReadObjects

SpecParse == InitParse /\ [][NextParse]_vars

-----------------------------------------------------------------------------
(* IsPdfFile on its own, over short files: some bytes, then the magic word  *)
(* whole or cut short, then the bytes of a version                           *)

\* the longest run of bytes ahead of the magic word
MaxLead == 2

LeadBytes == {"%", "P", "x"}

Leads == UNION { [1..n -> LeadBytes] : n \in 0..MaxLead }

MagicWords == { Magic, SubSeq(Magic, 1, 4), <<>> }

VersionBytes ==
    { <<"1", ".", d>> : d \in {"0", "1", "2", "3", "4", "5", "6", "7", "8"} }
    \cup { <<"2", ".", "0">>, <<"2", ".", "1">>, <<"1", ".">>, <<"1", "7", "\n">>, <<>> }

MagicFiles ==
    { [NoFile EXCEPT !.chars = l \o m \o v \o t] :
        l \in Leads, m \in MagicWords, v \in VersionBytes, t \in { <<>>, <<"\n">> } }

\* IsPdfFile, as Parse calls it: the error Parse raises when it returns false
DoIsPdfFile ==
    LET pdf == IsPdfFile(file)
    IN  /\ ret = NoRet
        /\ ret' = [op |-> "IsPdfFile", arg |-> pdf.version,
                   err |-> IF pdf.ok THEN "none" ELSE "InvalidPDF",
                   found |-> pdf.ok, value |-> pdf.magicOffset]
        /\ m_magicOffset' = pdf.magicOffset
        /\ UNCHANGED <<m_Document, trailer, m_Objects, m_FreeObjects, m_unavailableObjects,
                       m_ObjectCount, m_compressedObjectStreams, terminal, maxSeen, last,
                       calls, withEncrypt, observerVars>>
        /\ UNCHANGED <<file, m_StrictParsing, m_Password, m_LoadOnDemand, pc, todo,
                       m_visitedXRefOffsets, m_entries, m_Trailer,
                       m_IncrementalUpdateCount, m_XRefOffset, m_lastEOFOffset,
                       m_HasXRefStream, m_Encrypt, perr, reads, parses>>

InitMagic ==
    /\ m_Document = "doc" /\ trailer = DictOf(<<>>)
    /\ file \in MagicFiles
    /\ m_StrictParsing = FALSE
    /\ m_Password = "right"
    /\ ParserConstructed
    /\ NoObservers
    /\ EmptyStore

NextMagic == DoIsPdfFile

SpecMagic == InitMagic /\ [][NextMagic]_vars

-----------------------------------------------------------------------------
(* TryGetPreviousRevisionOffset, over files of two revisions: the older one *)
(* is a file of three tables that ends with "startxref M", the EOF marker    *)
(* and an end of line; the newer one appends a section, slot "D", and the    *)
(* tail.  The older revision has objects 3 (free) and 4 in its newest table, *)
(* the newer one writes objects 5 and 6                                      *)

Rev1Tail == TokStartXRef \o <<" ", "M", "\n">> \o TokEOF \o <<"\n">>

\* the offset right after the EOF marker of the older revision
EndRev1 == OffTail + Len(Rev1Tail) - 1

OffD == OffTail + Len(Rev1Tail)

\* the entries the newer revision may write: two objects in use, the second
\* one at the lower offset, or a free one only
RevSubs(entries) ==
    IF entries = "inUse"
    THEN << Sub(5, << Raw("n", OffObj(2), 0), Raw("n", OffObj(1), 0) >>) >>
    ELSE << Sub(5, << Raw("f", 0, 1) >>) >>

RevChoices ==
    [kindC : {"table", "stream"},
     prevC : { <<>>, <<Off("B")>> },
     kindD : {"table", "stream"},
     prevD : { <<>>, <<Off("C")>>, <<0>> },
     entriesD : {"inUse", "free"},
     seek : SeekModes]

\* Prev of an xref stream, if any, is positive
RevWellFormed(c) == c.kindD = "stream" => c.prevD # <<0>>

RevFileOf(c) ==
    LET kinds == [sl \in Slots |-> IF sl = "C" THEN c.kindC ELSE "table"]
        prevs == [sl \in Slots |-> CASE sl = "C" -> c.prevC
                                     [] sl = "B" -> <<Off("A")>>
                                     [] sl = "A" -> <<>>]
        dictD == [k \in {"Size", "Root"} |->
                     IF k = "Size" THEN Val("Number", 7, "D") ELSE Val("Reference", 1, "D")]
    IN  [chars |-> Header \o ObjCells \o SlotChars("table") \o SlotChars("table")
                   \o SlotChars(c.kindC) \o Rev1Tail
                   \o SlotChars(c.kindD) \o FileTail(TokStartXRef),
         num |-> OffD,
         mid |-> Off("C"),
         seek |-> c.seek,
         sections |-> [o \in { Off(sl) : sl \in Slots } \cup {OffD} |->
                          IF o = OffD
                          THEN [kind |-> c.kindD, subs |-> RevSubs(c.entriesD),
                                dict |-> IF c.prevD = <<>> THEN dictD
                                         ELSE WithKey(dictD, "Prev",
                                                      Val("Number", c.prevD[1], "D"))]
                          ELSE LET sl == CHOOSE x \in Slots : Off(x) = o
                               IN  Section(sl, kinds[sl], prevs[sl], <<>>)],
         objects |-> [o \in { OffObj(k) : k \in 1..Len(ObjCells) } |->
                         ObjAt(o - Len(Header) + 1)]]

RevFiles == { RevFileOf(c) : c \in { x \in RevChoices : RevWellFormed(x) } }

\* a parser right after its constructor, as a record
NewParser ==
    [visited |-> {}, entries |-> <<>>, trailer |-> <<>>, count |-> 0, xref |-> 0,
     hasStm |-> FALSE, reads |-> <<>>]

\* the loop over the entries: whether one is parsed and in use, and the
\* lowest offset of those that are, -1 standing for the maximum of size_t
lowestInUse(entries) ==
    LET inUse == { i \in 1..Len(entries) :
                     entries[i].Parsed /\ entries[i].Type = "InUse" }
        offsets == { entries[i].Offset : i \in inUse }
    IN  [found |-> inUse # {},
         eofOffset |-> IF inUse = {} THEN -1
                       ELSE CHOOSE o \in offsets : \A q \in offsets : o <= q]

\* the offsets the caller gives: the end of the older revision and the end
\* of the file
RevOffsets(f) == { EndRev1, Len(f.chars) }

\* what the call gives back: [op, arg, err, found, value]
RevisionResult(currOffset, err, found, eofOffset) ==
    [op |-> "TryGetPreviousRevisionOffset", arg |-> currOffset, err |-> err,
     found |-> found, value |-> eofOffset]

\* the store of the caller is not the parser's: no step writes to it
callerUntouched ==
    UNCHANGED <<m_Document, trailer, m_Objects, m_FreeObjects, m_unavailableObjects,
                m_ObjectCount, m_compressedObjectStreams, terminal, maxSeen, last,
                calls, withEncrypt, observerVars>>

\* TryGetPreviousRevisionOffset up to the call of ReadXRefContents: the seek
\* to currOffset, a new parser, and ReadDocumentStructure with its
\* eofSearchOffset: checkEOFMarker seeks from the end of the device.  The
\* parser of the variables is that new parser, lenient
DoTryGetPreviousRevisionOffset ==
    \E currOffset \in RevOffsets(file) :
        LET sk == Seek(file, currOffset)
            eof == checkEOFMarker(file, m_StrictParsing)
            fx == findXRef(file, m_StrictParsing, eof.lastEOF, 0)
            thrown == IF sk.err # "none" THEN sk.err
                      ELSE IF eof.err # "none" THEN eof.err
                      ELSE fx.err
        IN  /\ pc = "idle" /\ ret = NoRet
            /\ callerUntouched
            /\ UNCHANGED <<file, m_StrictParsing, m_Password, m_LoadOnDemand,
                           m_magicOffset, m_Encrypt, perr, parses>>
            /\ IF thrown # "none"
               THEN /\ ret' = RevisionResult(currOffset, thrown, FALSE, -1)
                    /\ UNCHANGED <<pc, todo, m_visitedXRefOffsets, m_entries, m_Trailer,
                                   m_IncrementalUpdateCount, m_XRefOffset,
                                   m_lastEOFOffset, m_HasXRefStream, reads>>
               ELSE /\ ret' = [NoRet EXCEPT !.op = "ReadDocumentStructure",
                                            !.arg = currOffset]
                    /\ SetParser([NewParser EXCEPT !.xref = fx.offset])
                    /\ m_lastEOFOffset' = eof.lastEOF
                    /\ pc' = "revision"
                    /\ todo' = <<Item("contents", fx.offset)>>

\* ReadXRefContents returned or threw r
RevisionRead(r) ==
    /\ SetParser(r.P)
    /\ todo' = <<>>
    /\ IF r.err # NoErr
       THEN /\ ret' = RevisionResult(ret.arg, r.err.code, FALSE, -1)
            /\ pc' = "idle"
       ELSE /\ ret' = ret
            /\ pc' = "entries"

\* the call of ReadXRefContents with skipFollowPrevious: no other call of it
\* is left to make when it returns
DoReadRevisionXRef ==
    /\ pc = "revision"
    /\ callerUntouched
    /\ UNCHANGED <<file, m_StrictParsing, m_Password, m_LoadOnDemand,
                   m_magicOffset, m_lastEOFOffset, m_Encrypt, perr, parses>>
    /\ RevisionRead(ReadXRefContents(PS, file, Head(todo).offset, TRUE, m_StrictParsing,
                                     m_lastEOFOffset, m_magicOffset))

\* TryGetPreviousRevisionOffset after ReadDocumentStructure: no incremental
\* update, no previous revision; else the loop over the entries
DoReturnRevisionOffset ==
    LET low == lowestInUse(m_entries)
    IN  /\ pc = "entries"
        /\ callerUntouched
        /\ UNCHANGED <<file, m_StrictParsing, m_Password, m_LoadOnDemand, todo,
                       m_visitedXRefOffsets, m_entries, m_Trailer,
                       m_IncrementalUpdateCount, m_XRefOffset, m_lastEOFOffset,
                       m_magicOffset, m_HasXRefStream, m_Encrypt, perr, reads, parses>>
        /\ pc' = "idle"
        /\ ret' = IF m_IncrementalUpdateCount = 0
                  THEN RevisionResult(ret.arg, "none", FALSE, -1)
                  ELSE RevisionResult(ret.arg, "none", low.found, low.eofOffset)

\* the caller holds a store with an object in it
InitRevision ==
    /\ m_Document = "doc" /\ trailer = DictOf(<<>>)
    /\ file \in RevFiles
    /\ m_StrictParsing = FALSE
    /\ m_Password = "right"
    /\ ParserConstructed
    /\ NoObservers
    /\ m_Objects = InsertObject(EmptyObjs, <<1, 0>>, VName)
    /\ m_FreeObjects = <<>>
    /\ m_unavailableObjects = {}
    /\ m_ObjectCount = 1
    /\ m_compressedObjectStreams = {}
    /\ terminal = {}
    /\ maxSeen = 1
    /\ last = Call("init", NoRef, VNull, FALSE, "none")
    /\ calls = 0

NextRevision ==
    \/ DoTryGetPreviousRevisionOffset
    \/ DoReadRevisionXRef
    \/ DoReturnRevisionOffset

SpecRevision == InitRevision /\ [][NextRevision]_vars

-----------------------------------------------------------------------------
(* findTokenBackward on its own, over short files made of the token and of   *)
(* other bytes                                                               *)

\* the most pieces a file is made of
MaxPieces == 3

\* a piece is the token "xref", a byte of it or another byte
Pieces == { TokXRef, <<"x">>, <<"s">> }

RECURSIVE Flatten(_)
Flatten(seqs) == IF seqs = <<>> THEN <<>> ELSE Head(seqs) \o Flatten(Tail(seqs))

TokenFiles ==
    { [NoFile EXCEPT !.chars = Flatten(ps), !.seek = sk] :
        ps \in UNION { [1..n -> Pieces] : n \in 0..MaxPieces }, sk \in SeekModes }

\* the ranges asked for: as long as the token, longer, and the buffer's
TokenRanges == { Len(TokXRef), Len(TokXRef) + 2, PDF_XREF_BUF }

DoFindTokenBackward ==
    \E range \in TokenRanges, searchEnd \in 0..Len(file.chars) :
        LET r == findTokenBackward(file, TokXRef, range, searchEnd)
        IN  /\ ret' = [op |-> "findTokenBackward",
                       arg |-> [range |-> range, searchEnd |-> searchEnd],
                       err |-> r.err, found |-> r.err = "none", value |-> r.pos]
            /\ callerUntouched
            /\ UNCHANGED <<file, m_StrictParsing, m_Password, m_LoadOnDemand, pc, todo,
                           m_visitedXRefOffsets, m_entries, m_Trailer,
                           m_IncrementalUpdateCount, m_XRefOffset, m_lastEOFOffset,
                           m_magicOffset, m_HasXRefStream, m_Encrypt, perr, reads,
                           parses>>

InitToken ==
    /\ m_Document = "doc" /\ trailer = DictOf(<<>>)
    /\ file \in TokenFiles
    /\ m_StrictParsing = FALSE
    /\ m_Password = "right"
    /\ ParserConstructed
    /\ NoObservers
    /\ EmptyStore

NextToken == DoFindTokenBackward

SpecToken == InitToken /\ [][NextToken]_vars
-----------------------------------------------------------------------------
(* The observers of a store on their own: attach, detach, and the two       *)
(* notifications                                                             *)

\* the longest list of observers
MaxObservers == 3

Observers == { "o1", "o2", "o3" }

\* PdfIndirectObjectList::AttachObserver
AttachObserver(observers, observer) == Append(observers, observer)

\* PdfIndirectObjectList::DetachObserver: the first element that is the
\* observer is erased, and the loop ends
RECURSIVE DetachObserver(_, _)
DetachObserver(observers, observer) ==
    IF observers = <<>> THEN <<>>
    ELSE IF Head(observers) = observer THEN Tail(observers)
    ELSE <<Head(observers)>> \o DetachObserver(Tail(observers), observer)

\* BeginAppendStream and EndAppendStream: the observers called, in order
Notify(observers) == observers

\* a sequence without the elements that are x
Without(seq, x) == SelectSeq(seq, LAMBDA y : y # x)

observersOnly ==
    /\ UNCHANGED <<m_Document, trailer, m_Objects, m_FreeObjects, m_unavailableObjects,
                   m_ObjectCount, m_compressedObjectStreams, terminal, maxSeen, last,
                   calls, parserVars>>

DoAttachObserver ==
    \E o \in Observers :
        /\ Len(m_observers) < MaxObservers
        /\ m_observers' = AttachObserver(m_observers, o)
        /\ attached' = IF o \in { attached[k] : k \in 1..Len(attached) } THEN attached
                       ELSE Append(attached, o)
        /\ notified' = NoNotice
        /\ observersOnly

DoDetachObserver ==
    \E o \in Observers :
        /\ m_observers' = DetachObserver(m_observers, o)
        /\ attached' = Without(attached, o)
        /\ notified' = NoNotice
        /\ observersOnly

DoBeginAppendStream ==
    /\ notified' = [op |-> "BeginAppendStream", observers |-> Notify(m_observers)]
    /\ UNCHANGED <<m_observers, attached>>
    /\ observersOnly

DoEndAppendStream ==
    /\ notified' = [op |-> "EndAppendStream", observers |-> Notify(m_observers)]
    /\ UNCHANGED <<m_observers, attached>>
    /\ observersOnly

InitObservers ==
    /\ m_Document = "doc" /\ trailer = DictOf(<<>>)
    /\ file = NoFile
    /\ m_StrictParsing = FALSE
    /\ m_Password = "right"
    /\ ParserConstructed
    /\ NoObservers
    /\ EmptyStore

NextObservers ==
    \/ DoAttachObserver
    \/ DoDetachObserver
    \/ DoBeginAppendStream
    \/ DoEndAppendStream

SpecObservers == InitObservers /\ [][NextObservers]_vars

-----------------------------------------------------------------------------
(* PdfFont::CreateStandard14 on its own: a font for each of the fourteen    *)
(* types, each set of creation flags and each kind of encoding              *)

\* PdfStandard14FontType, Unknown left out
Standard14Types ==
    { "TimesRoman", "TimesItalic", "TimesBold", "TimesBoldItalic", "Helvetica",
      "HelveticaOblique", "HelveticaBold", "HelveticaBoldOblique", "Courier",
      "CourierOblique", "CourierBold", "CourierBoldOblique", "Symbol", "ZapfDingbats" }

\* PdfFontCreateFlags: a value is the set of the flags that are set
PdfFontCreateFlags == SUBSET { "DontEmbed", "DontSubset", "PreferNonCID" }

\* PdfFont::CreateStandard14: the font created, its class and what
\* InitImported is given
CreateStandard14(std14Font, flags, hasCIDMapping) ==
    LET embeddingEnabled == "DontEmbed" \notin flags
        subsettingEnabled == "DontSubset" \notin flags
        preferNonCid == IF embeddingEnabled THEN "PreferNonCID" \in flags ELSE TRUE
    IN  [type |-> IF preferNonCid /\ ~hasCIDMapping THEN "PdfFontType1"
                  ELSE "PdfFontCIDCFF",
         metrics |-> std14Font,
         embeddingEnabled |-> embeddingEnabled,
         subsettingEnabled |-> subsettingEnabled]

DoCreateStandard14 ==
    \E std14Font \in Standard14Types, flags \in PdfFontCreateFlags,
       hasCIDMapping \in BOOLEAN :
        /\ ret' = [op |-> "CreateStandard14",
                   arg |-> [std14Font |-> std14Font, flags |-> flags,
                            hasCIDMapping |-> hasCIDMapping],
                   err |-> "none", found |-> TRUE,
                   value |-> CreateStandard14(std14Font, flags, hasCIDMapping)]
        /\ callerUntouched
        /\ UNCHANGED <<file, m_StrictParsing, m_Password, m_LoadOnDemand, pc, todo,
                       m_visitedXRefOffsets, m_entries, m_Trailer,
                       m_IncrementalUpdateCount, m_XRefOffset, m_lastEOFOffset,
                       m_magicOffset, m_HasXRefStream, m_Encrypt, perr, reads, parses>>

InitFont ==
    /\ m_Document = "doc" /\ trailer = DictOf(<<>>)
    /\ file = NoFile
    /\ m_StrictParsing = FALSE
    /\ m_Password = "right"
    /\ ParserConstructed
    /\ NoObservers
    /\ EmptyStore

NextFont == DoCreateStandard14

SpecFont == InitFont /\ [][NextFont]_vars

-----------------------------------------------------------------------------
(* Definitions the properties are stated with *)

storeVars == <<m_Objects, m_FreeObjects, m_unavailableObjects, m_ObjectCount,
               m_compressedObjectStreams>>

CreateOps == {"CreateDictionaryObject", "CreateArrayObject", "CreateObject"}

Created(c) == c.op \in CreateOps /\ c.err = "none"

FreeSet(free) == { free[i] : i \in 1..Len(free) }

\* the references written in a value, at any depth
RECURSIVE RefsOf(_)
RefsOf(v) ==
    IF v.type = "Reference" THEN {v.ref}
    ELSE UNION { RefsOf(v.items[i]) : i \in 1..Len(v.items) }

\* the references reachable from roots through the objects of objs
RECURSIVE Reachable(_, _)
Reachable(roots, objs) ==
    LET more == roots \cup UNION { RefsOf(objs[r]) : r \in roots \cap DOMAIN objs }
    IN  IF more = roots THEN roots ELSE Reachable(more, objs)

FromTrailer(objs) == Reachable(RefsOf(trailer), objs)

\* reachable from the trailer or from the object of a registered container
FromTrailerOrContainers(objs, comp) ==
    Reachable(RefsOf(trailer)
              \cup UNION { RefsOf(objs[<<n, 0>>]) :
                             n \in { c \in comp : <<c, 0>> \in DOMAIN objs } },
              objs)

GCDone(c) == c.op = "CollectGarbage" /\ c.err = "none" /\ m_Document = "doc"

\* the smallest number above n that is not in unavail
NextAbove(n, unavail) ==
    CHOOSE k \in (n + 1)..(n + 1 + Cardinality(unavail)) :
        /\ k \notin unavail
        /\ \A j \in (n + 1)..(k - 1) : j \in unavail

-----------------------------------------------------------------------------
(* C1..C10: the indirect-object store *)

\* C1: under allocation and removal from the empty store, the free list is
\* after every call sorted strictly ascending, hence free of duplicates.
C1_FreeListSorted ==
    \A i, j \in 1..Len(m_FreeObjects) :
        i < j => RefLess(m_FreeObjects[i], m_FreeObjects[j])

C1_Witness ==
    /\ last.op = "RemoveObject" /\ last.flag /\ last.err = "none"
    /\ Len(m_FreeObjects) >= 2

\* C2 (as claimed): an object number whose entry reached generation 65535 is in
\* the unavailable set, is not on the free list, and no allocation returns it.
C2_TerminalNumberRetired ==
    \A n \in terminal :
        /\ n \in m_unavailableObjects
        /\ \A i \in 1..Len(m_FreeObjects) : m_FreeObjects[i][1] # n
        /\ Created(last) => last.ref[1] # n

\* C3 (as claimed): after collect_garbage on a store with a document, every
\* reference reachable from the trailer that resolved still resolves to the same
\* object, and every object left is reachable from the trailer or has the
\* number of a compressed-object-stream container.
C3_Original ==
    [][GCDone(last') =>
        /\ \A r \in FromTrailer(m_Objects) \cap DOMAIN m_Objects :
               r \in DOMAIN m_Objects' /\ m_Objects'[r] = m_Objects[r]
        /\ \A r \in DOMAIN m_Objects' :
               r \in FromTrailer(m_Objects') \/ r[1] \in m_compressedObjectStreams
      ]_vars

\* C3 (amended): after collect_garbage on a store with a document, every
\* reference reachable from the trailer that resolved still resolves to the same
\* object, and every object left is reachable from the trailer or from the
\* object of a registered container, or has the number of a registered container.
C3_GCSound ==
    [][GCDone(last') =>
        /\ \A r \in FromTrailer(m_Objects) \cap DOMAIN m_Objects :
               r \in DOMAIN m_Objects' /\ m_Objects'[r] = m_Objects[r]
        /\ \A r \in DOMAIN m_Objects' :
               \/ r \in FromTrailerOrContainers(m_Objects', m_compressedObjectStreams)
               \/ r[1] \in m_compressedObjectStreams
      ]_vars

C3_Witness ==
    /\ GCDone(last)
    /\ <<1, 0>> \in FromTrailer(m_Objects) \cap DOMAIN m_Objects
    /\ <<2, 0>> \notin DOMAIN m_Objects
    /\ m_FreeObjects = << <<2, 1>> >>
    /\ m_compressedObjectStreams = {}

\* C4: collect_garbage removes no object whose number is registered as a
\* compressed object stream, and adds no such number to the free list.
C4_ContainersKept ==
    [][last'.op = "CollectGarbage" =>
        /\ \A r \in DOMAIN m_Objects :
               r[1] \in m_compressedObjectStreams
                   => r \in DOMAIN m_Objects' /\ m_Objects'[r] = m_Objects[r]
        /\ \A f \in FreeSet(m_FreeObjects') :
               f[1] \in m_compressedObjectStreams => f \in FreeSet(m_FreeObjects)
      ]_vars

C4_Witness ==
    /\ GCDone(last)
    /\ m_FreeObjects # <<>>
    /\ \E r \in DOMAIN m_Objects :
           r[1] \in m_compressedObjectStreams /\ r \notin FromTrailer(m_Objects)

\* C5 (as claimed): remove of a reference whose object number is registered as
\* a container fails with InternalLogic.
C5_Original ==
    (last.op = "RemoveObject" /\ last.ref[1] \in m_compressedObjectStreams)
        => last.err = "InternalLogic"

\* C5 (amended): remove of the reference of a live object whose object number
\* is registered as a container fails with InternalLogic and leaves the store,
\* the free list, the unavailable set and the object count as they were.
C5_ContainerNotRemoved ==
    [][(/\ last'.op = "RemoveObject"
        /\ last'.ref \in DOMAIN m_Objects
        /\ last'.ref[1] \in m_compressedObjectStreams)
        => last'.err = "InternalLogic" /\ UNCHANGED storeVars
      ]_vars

C5_Witness ==
    /\ last.op = "RemoveObject" /\ last.err = "InternalLogic"
    /\ last.ref \in DOMAIN m_Objects

\* C6 (as claimed): the reference an allocating insert gives to the new object
\* identified no live object immediately before the call.
C6_AllocationFresh ==
    [][Created(last') => last'.ref \notin DOMAIN m_Objects]_vars

\* C7: an allocation that succeeds returns the front of the free list, which is
\* its smallest reference, and removes it; with an empty free list it returns
\* (n, 0), n the smallest number above the highest object number ever inserted
\* into the store or the free list that is not in the unavailable set.
C7_AllocatorProtocol ==
    [][Created(last') =>
        IF m_FreeObjects # <<>>
        THEN /\ last'.ref = Head(m_FreeObjects)
             /\ \A f \in FreeSet(m_FreeObjects) : ~RefLess(f, last'.ref)
             /\ m_FreeObjects' = Tail(m_FreeObjects)
        ELSE /\ last'.ref = <<NextAbove(maxSeen, m_unavailableObjects), 0>>
             /\ m_FreeObjects' = <<>>
      ]_vars

C7_Witness ==
    /\ Created(last)
    /\ last.ref = <<MaxXRefGenerationNum + 1, 0>>
    /\ MaxXRefGenerationNum \in m_unavailableObjects
    /\ m_FreeObjects = <<>>

\* C8: with an empty free list and the smallest available number above the
\* object count beyond the maximum object count, allocation fails with
\* ValueOutOfRange and changes nothing.
C8_AllocationLimit ==
    [][(/\ last'.op \in CreateOps
        /\ m_FreeObjects = <<>>
        /\ NextAbove(m_ObjectCount, m_unavailableObjects) > MaxObjectCount)
        => last'.err = "ValueOutOfRange" /\ UNCHANGED storeVars
      ]_vars

C8_Witness ==
    /\ last.op \in CreateOps /\ last.err = "ValueOutOfRange"
    /\ m_FreeObjects = <<>>

\* C9: push(obj) stores obj under its reference, replacing an object of the same
\* reference with the size unchanged and growing the size by one otherwise; every
\* other object is untouched and the object count becomes the maximum of the
\* count and obj's object number.
C9_PushReplaces ==
    [][last'.op = "PushObject" =>
        /\ DOMAIN m_Objects' = DOMAIN m_Objects \cup {last'.ref}
        /\ m_Objects'[last'.ref] = last'.val
        /\ \A r \in DOMAIN m_Objects \ {last'.ref} : m_Objects'[r] = m_Objects[r]
        /\ Cardinality(DOMAIN m_Objects') =
               IF last'.ref \in DOMAIN m_Objects
               THEN Cardinality(DOMAIN m_Objects)
               ELSE Cardinality(DOMAIN m_Objects) + 1
        /\ m_ObjectCount' = IF last'.ref[1] > m_ObjectCount
                            THEN last'.ref[1] ELSE m_ObjectCount
      ]_vars

C9_Witness ==
    /\ last.op = "PushObject" /\ last.flag
    /\ m_Objects[last.ref] = last.val
    /\ Cardinality(DOMAIN m_Objects) = 2
    /\ m_ObjectCount > last.ref[1]

C11_AddFreeIdempotent ==
    [][last'.op = "AddFreeObject" =>
        IF last'.ref \in FreeSet(m_FreeObjects)
        THEN UNCHANGED <<m_FreeObjects, m_Objects, m_ObjectCount>>
        ELSE /\ m_FreeObjects' = SortRefs(FreeSet(m_FreeObjects) \cup {last'.ref})
             /\ Len(m_FreeObjects') = Len(m_FreeObjects) + 1
             /\ m_ObjectCount' >= last'.ref[1]
             /\ m_ObjectCount' >= m_ObjectCount
             /\ m_Objects' = m_Objects
      ]_vars

\* add_free of a reference that was on the list, between two others or before
\* another one
C11_Witness ==
    /\ last.op = "AddFreeObject" /\ last.flag
    /\ Len(m_FreeObjects) >= 2
    /\ m_ObjectCount >= 2

\* C12 (as claimed): in every state reachable by the store operations the free
\* list is sorted ascending by object number and holds no object number more
\* than once.
C12_Original ==
    \A i \in 1..Len(m_FreeObjects) : \A j \in (i + 1)..Len(m_FreeObjects) :
        m_FreeObjects[i][1] < m_FreeObjects[j][1]

\* C12 (amended): in every state reachable by the store operations the free
\* list is sorted ascending by reference (object number, then generation) and
\* holds no reference more than once; an object number may be on it with more
\* than one generation.
C12_FreeListStrict ==
    /\ \A i \in 1..(Len(m_FreeObjects) - 1) :
           RefLess(m_FreeObjects[i], m_FreeObjects[i + 1])
    /\ Cardinality(FreeSet(m_FreeObjects)) = Len(m_FreeObjects)

\* the free list holds one object number with two generations
C12_Witness ==
    /\ Len(m_FreeObjects) >= 2
    /\ \E i \in 1..(Len(m_FreeObjects) - 1) :
           m_FreeObjects[i][1] = m_FreeObjects[i + 1][1]

-----------------------------------------------------------------------------
(* The xref walk: properties *)

\* the section at offset o has a Prev that is o itself
SelfPrev(f, o) ==
    /\ o \in DOMAIN f.sections
    /\ "Prev" \in DOMAIN f.sections[o].dict
    /\ f.sections[o].dict["Prev"].n = o

IsTableAt(f, o) == o \in DOMAIN f.sections /\ f.sections[o].kind = "table"

\* the first parse of the file is over
Parsed1 == pc = "idle" /\ parses = 1

\* C13 as stated: a parse that read a section whose Prev is the section's own
\* offset has failed with InvalidXRef, "cycle"
C13_Original ==
    (Parsed1 /\ \E k \in 1..Len(reads) : SelfPrev(file, reads[k]))
        => perr = Err("InvalidXRef", "cycle")

\* C13: the call of ReadXRefContents for an offset at which a section lies
\* whose Prev is that same offset reads the section, does not raise the cycle
\* error and does not ask for that offset again; when it returns, the Prev of
\* a table has been counted as an incremental update (and skipped), the Prev
\* of an xref stream was ignored
C13_SelfPrevNotFollowed ==
    [][(/\ pc = "xref" /\ todo # <<>> /\ Head(todo).op = "contents"
        /\ Head(todo).offset \notin m_visitedXRefOffsets
        /\ SelfPrev(file, Head(todo).offset))
       => LET o == Head(todo).offset
          IN  /\ Len(reads') > Len(reads) /\ reads'[Len(reads) + 1] = o
              /\ pc' = "idle" => perr' # Err("InvalidXRef", "cycle")
              /\ \A k \in 1..Len(todo') : todo'[k] # Item("contents", o)
              /\ pc' = "xref" =>
                    IF IsTableAt(file, o)
                    THEN m_IncrementalUpdateCount' >= m_IncrementalUpdateCount + 1
                    ELSE m_IncrementalUpdateCount' = m_IncrementalUpdateCount]_vars

\* a parse went well although it read a section whose Prev is its own offset
C13_Witness ==
    /\ Parsed1 /\ perr = NoErr
    /\ \E k \in 1..Len(reads) : SelfPrev(file, reads[k])

\* the subsections of the section at offset o that specify object number i
SubsFor(f, o, i) ==
    { k \in 1..Len(f.sections[o].subs) :
        LET sub == f.sections[o].subs[k]
        IN  i >= sub.first /\ i < sub.first + Len(sub.entries) }

Specifies(f, o, i) == SubsFor(f, o, i) # {}

\* what the section at offset o says about object number i
RawOf(f, o, i) ==
    LET k == CHOOSE x \in SubsFor(f, o, i) : \A y \in SubsFor(f, o, i) : x <= y
        sub == f.sections[o].subs[k]
    IN  sub.entries[i - sub.first + 1]

\* the type, the offset or next free object number, and the generation of
\* entry e are those of what a section says
Agrees(e, raw, isTable, magicOffset) ==
    /\ e.Parsed
    /\ e.Type = (CASE raw.type = "f" -> "Free" [] raw.type = "n" -> "InUse"
                   [] raw.type = "c" -> "Compressed")
    /\ raw.type = "f" => e.ObjectNumber = raw.variant /\ e.Generation = raw.generation
    /\ raw.type = "n" =>
          /\ e.Offset = raw.variant + (IF isTable THEN magicOffset ELSE 0)
          /\ e.Generation = raw.generation
    /\ raw.type = "c" => e.ObjectNumber = raw.variant /\ e.Index = raw.generation

\* the positions in the history of reads of the sections specifying number i
ReadsFor(i) == { k \in 1..Len(reads) : Specifies(file, reads[k], i) }

\* C14: during the walk and at its end, the entry of each object number is the
\* one of the first section read (the newest revision, reading newest first)
\* that specifies the number, and a number no section read specifies has no
\* parsed entry
C14_XRefShadowing ==
    pc = "xref" =>
        \A n \in 1..Len(m_entries) :
            LET i == n - 1
            IN  IF ReadsFor(i) = {} THEN ~m_entries[n].Parsed
                ELSE LET k == CHOOSE x \in ReadsFor(i) : \A y \in ReadsFor(i) : x <= y
                     IN  Agrees(m_entries[n], RawOf(file, reads[k], i),
                                IsTableAt(file, reads[k]), m_magicOffset)

\* the walk is over and two sections read say different things about a number
C14_Witness ==
    /\ pc = "xref" /\ todo = <<>>
    /\ \E i \in 0..(Len(m_entries) - 1) : \E k1, k2 \in ReadsFor(i) :
          /\ k1 < k2
          /\ RawOf(file, reads[k1], i) # RawOf(file, reads[k2], i)
          /\ Agrees(m_entries[i + 1], RawOf(file, reads[k1], i),
                    IsTableAt(file, reads[k1]), m_magicOffset)

\* the trailer dictionary of the section read k-th
DictRead(k) == file.sections[reads[k]].dict

\* the positions in the history of reads of the sections whose trailer has key
DefinedAt(key) == { k \in 1..Len(reads) : key \in DOMAIN DictRead(k) }

\* the value of key in the first section read (the newest) that defines it
NewestValue(key) ==
    LET k == CHOOSE x \in DefinedAt(key) : \A y \in DefinedAt(key) : x <= y
    IN  DictRead(k)[key]

Walking == pc = "xref" /\ m_Trailer # <<>>

\* C15: during the walk and at its end, each of Size, Root, Encrypt, Info and
\* ID is in the effective trailer exactly when the trailer of some section
\* read defines it, with the value of the newest section that does
C15_MergeFiveKeys ==
    Walking =>
        \A key \in TrailerKeys :
            IF DefinedAt(key) = {} THEN key \notin DOMAIN m_Trailer[1]
            ELSE /\ key \in DOMAIN m_Trailer[1]
                 /\ m_Trailer[1][key] = NewestValue(key)

\* the walk is over; Info comes from an older section only, and Size is
\* defined differently by the newest section and an older one
C15_Witness ==
    /\ pc = "xref" /\ todo = <<>> /\ Len(reads) >= 2 /\ m_Trailer # <<>>
    /\ "Info" \notin DOMAIN DictRead(1)
    /\ "Info" \in DOMAIN m_Trailer[1]
    /\ \E k \in 2..Len(reads) :
          /\ "Size" \in DOMAIN DictRead(k)
          /\ DictRead(k)["Size"] # DictRead(1)["Size"]
    /\ m_Trailer[1]["Size"] = DictRead(1)["Size"]

\* C16 as stated: every key defined by the trailer of some section read is in
\* the effective trailer, with the value of the newest section defining it
C16_Original ==
    Walking =>
        \A k \in 1..Len(reads) : \A key \in DOMAIN DictRead(k) :
            /\ key \in DOMAIN m_Trailer[1]
            /\ m_Trailer[1][key] = NewestValue(key)

\* C16: the effective trailer has every key of the first section read, with
\* that section's value, and of the older sections only the keys Size, Root,
\* Encrypt, Info and ID that it lacked; any other key of an older section is
\* not in it
C16_EffectiveTrailer ==
    Walking =>
        /\ DOMAIN m_Trailer[1] =
              DOMAIN DictRead(1)
              \cup { key \in TrailerKeys : DefinedAt(key) # {} }
        /\ \A key \in DOMAIN DictRead(1) : m_Trailer[1][key] = DictRead(1)[key]

\* the walk is over and an older section read has a key, not one of the five,
\* that the effective trailer lacks, next to one that it took over
C16_Witness ==
    /\ pc = "xref" /\ todo = <<>> /\ m_Trailer # <<>>
    /\ \E k \in 2..Len(reads) :
          /\ \E key \in DOMAIN DictRead(k) \ TrailerKeys : key \notin DOMAIN m_Trailer[1]
          /\ \E key \in DOMAIN DictRead(k) \cap TrailerKeys :
                /\ key \notin DOMAIN DictRead(1)
                /\ m_Trailer[1][key] = DictRead(k)[key]

HasPrev(d) == "Prev" \in DOMAIN d /\ d["Prev"].kind = "Number"

\* a step of the walk that does not throw
WalkStep == pc = "xref" /\ todo # <<>> /\ pc' = "xref"

\* the step is one call of ReadXRefContents that read the single section o
ReadsOne(o) ==
    /\ WalkStep /\ Head(todo).op = "contents"
    /\ reads' = Append(reads, o)

\* C17 as stated, for a call that reads one section: the count goes up by one
\* exactly when the section's Prev is present, positive and not visited, and
\* that offset is then read
C17_Original ==
    [][\A o \in DOMAIN file.sections :
          ReadsOne(o) =>
             LET d == file.sections[o].dict
                 follows == /\ HasPrev(d) /\ d["Prev"].n > 0
                            /\ d["Prev"].n \notin m_visitedXRefOffsets'
             IN  /\ m_IncrementalUpdateCount' =
                       m_IncrementalUpdateCount + (IF follows THEN 1 ELSE 0)
                 /\ follows => Head(todo') = Item("contents", d["Prev"].n)]_vars

\* the walk read the newest section and, through its Prev, one older section
\* that has no Prev: a file with one appended revision
OneAppended ==
    /\ pc = "xref" /\ todo = <<>> /\ Len(reads) = 2 /\ reads[1] # reads[2]
    /\ HasPrev(DictRead(1)) /\ DictRead(1)["Prev"].n = reads[2]
    /\ "XRefStm" \notin DOMAIN DictRead(1)
    /\ "Prev" \notin DOMAIN DictRead(2)

\* C17: a call of ReadXRefContents that reads one section, a table, counts an
\* incremental update exactly when the Prev of the table is a positive number,
\* visited or not, and asks for that offset exactly when it is also not
\* visited; one that reads an xref stream counts exactly when the stream has
\* a Prev other than its own offset, and then asks for that offset; a Prev
\* taken up after the xref stream of a hybrid section counts like that of a
\* table.  After the walk of a file with one appended revision the count is 1.
C17_IncrementalUpdateCount ==
    /\ [][/\ \A o \in DOMAIN file.sections :
                ReadsOne(o) =>
                   LET d == file.sections[o].dict
                       n == d["Prev"].n
                       counts == IF IsTableAt(file, o)
                                 THEN HasPrev(d) /\ n > 0
                                 ELSE HasPrev(d) /\ n # o
                       asks == IF IsTableAt(file, o)
                               THEN counts /\ n \notin m_visitedXRefOffsets'
                               ELSE counts
                   IN  /\ m_IncrementalUpdateCount' =
                             m_IncrementalUpdateCount + (IF counts THEN 1 ELSE 0)
                       /\ IF asks THEN Head(todo') = Item("contents", n)
                          ELSE todo' = Tail(todo)
          /\ (WalkStep /\ Head(todo).op = "prev") =>
                LET n == Head(todo).offset
                IN  /\ m_IncrementalUpdateCount' =
                          m_IncrementalUpdateCount + (IF n > 0 THEN 1 ELSE 0)
                    /\ todo' = (IF n > 0 /\ n \notin m_visitedXRefOffsets
                                THEN <<Item("contents", n)>> ELSE <<>>) \o Tail(todo)
       ]_vars
    /\ [](OneAppended => m_IncrementalUpdateCount = 1)

\* the walk is over: it followed the Prev of the newest section, and counted
\* the Prev of the older table although that offset was visited
C17_Witness ==
    /\ pc = "xref" /\ todo = <<>> /\ Len(reads) = 2 /\ reads[1] # reads[2]
    /\ IsTableAt(file, reads[2])
    /\ HasPrev(DictRead(2)) /\ DictRead(2)["Prev"].n \in m_visitedXRefOffsets
    /\ m_IncrementalUpdateCount = 2

\* the walk has read, so far, one hybrid section: its table, then the xref
\* stream its XRefStm names
HybridRead ==
    /\ pc = "xref" /\ Len(reads) = 2
    /\ IsTableAt(file, reads[1]) /\ ~IsTableAt(file, reads[2])
    /\ "XRefStm" \in DOMAIN DictRead(1)
    /\ DictRead(1)["XRefStm"].n = reads[2]

\* the entries when the xref stream at s is read before the table at t
StreamThenTable(f, t, s, magicOffset) ==
    LET first == ReadSubsections(<<>>, f.sections[s].subs, 1, 0, FALSE).entries
    IN  ReadSubsections(first, f.sections[t].subs, 1, magicOffset, TRUE).entries

\* C18 as stated: the entries after the table and then the stream were read
\* are those that reading the stream first gives
C18_Original ==
    HybridRead => m_entries = StreamThenTable(file, reads[1], reads[2], m_magicOffset)

\* C18: in either order the entry of an object number is that of the part read
\* first among those that specify it, so the two orders agree on the numbers
\* that only one part specifies and differ where both specify it differently;
\* the parser reads the table first, so there the table's entry is the result
C18_HybridFirstReadWins ==
    HybridRead =>
        LET t == reads[1]
            s == reads[2]
            other == StreamThenTable(file, t, s, m_magicOffset)
        IN  /\ Len(other) = Len(m_entries)
            /\ \A n \in 1..Len(m_entries) :
                  LET i == n - 1
                      inT == Specifies(file, t, i)
                      inS == Specifies(file, s, i)
                  IN  /\ inT => Agrees(m_entries[n], RawOf(file, t, i), TRUE, m_magicOffset)
                      /\ inS => Agrees(other[n], RawOf(file, s, i), FALSE, m_magicOffset)
                      /\ (inS /\ ~inT) =>
                            Agrees(m_entries[n], RawOf(file, s, i), FALSE, m_magicOffset)
                      /\ (inT /\ ~inS) =>
                            Agrees(other[n], RawOf(file, t, i), TRUE, m_magicOffset)
                      /\ ~(inT /\ inS) => m_entries[n] = other[n]

\* a hybrid section was read whose table and stream say different things about
\* an object number, and the entries have what the table says
C18_Witness ==
    /\ HybridRead
    /\ \E i \in 0..(Len(m_entries) - 1) :
          /\ Specifies(file, reads[1], i) /\ Specifies(file, reads[2], i)
          /\ RawOf(file, reads[1], i) # RawOf(file, reads[2], i)
          /\ Agrees(m_entries[i + 1], RawOf(file, reads[1], i), TRUE, m_magicOffset)
          /\ \E j \in 0..(Len(m_entries) - 1) :
                ~Specifies(file, reads[1], j) /\ Specifies(file, reads[2], j)

\* the number after the startxref keyword of the file is beyond its size
StartBeyond(f) == f.num > Len(f.chars)

\* the offsets of the tables of the file: where its "xref" tokens are
TableOffsets(f) == { o \in DOMAIN f.sections : f.sections[o].kind = "table" }

\* the file ends with the standard keyword, "startxref"
HasStartXRef(f) ==
    \E p \in 1..(Len(f.chars) - Len(TokStartXRef) + 1) :
        SubSeq(f.chars, p, p + Len(TokStartXRef) - 1) = TokStartXRef

\* C19, lenient mode: after the parse of a file whose startxref offset is
\* beyond the file size, the table at the last "xref" token before the
\* startxref line has been read, as the first section of the walk
C19_LenientFallbackReadsTable ==
    (/\ Parsed1 /\ ~m_StrictParsing
     /\ HasStartXRef(file) /\ StartBeyond(file) /\ TableOffsets(file) # {})
        => /\ reads # <<>>
           /\ reads[1] \in TableOffsets(file)
           /\ \A o \in TableOffsets(file) : o <= reads[1]

\* the store as a parser finds it: nothing in it
StoreEmpty ==
    /\ m_Objects = EmptyObjs
    /\ m_FreeObjects = <<>>
    /\ m_compressedObjectStreams = {}

\* C20: a Parse that ends with InvalidPassword has put no object into the
\* store and has kept the entries, the trailer and the encryption object; and
\* the next Parse of the same parser, with the right password set after an
\* InvalidPassword, ends without error
C20_PasswordRetry ==
    [][/\ (pc = "xref" /\ pc' = "idle" /\ perr'.code = "InvalidPassword") =>
             /\ StoreEmpty'
             /\ m_Trailer' = m_Trailer /\ m_Trailer' # <<>>
             /\ Len(m_entries') = Len(m_entries) /\ m_entries' # <<>>
             /\ m_Encrypt' # "null"
       /\ (/\ pc = "xref" /\ pc' = "idle"
           /\ perr.code = "InvalidPassword" /\ m_Password = "right") =>
             perr' = NoErr]_vars

-----------------------------------------------------------------------------
(* Parse up to the xref walk: properties *)

\* a step that is a call of Parse
ParseCalled == parses' = parses + 1

\* the offset of the occurrence of the EOF marker nearest the end, -1 if none
LastMarker(chars) ==
    LET hits == { p \in 0..(Len(chars) - Len(TokEOF)) :
                    SubSeq(chars, p + 1, p + Len(TokEOF)) = TokEOF }
    IN  IF hits = {} THEN -1 ELSE CHOOSE p \in hits : \A q \in hits : q <= p

\* the marker end-of-file discovery is to choose: in strict mode the last five
\* bytes, in lenient mode the occurrence nearest the end; -1 if there is none
ChosenMarker(chars, strict) ==
    LET m == LastMarker(chars)
    IN  IF strict /\ m # Len(chars) - Len(TokEOF) THEN -1 ELSE m

\* C22: end-of-file discovery succeeds in strict mode iff the last five bytes
\* of the file are the marker, in lenient mode iff the marker occurs, choosing
\* the occurrence nearest the end; on success m_lastEOFOffset is the offset of
\* the chosen marker and the search for startxref starts from it, on failure
\* the error is InvalidEOFToken
C22_EOFDiscovery ==
    [][(ParseCalled /\ IsPdfFile(file).ok) =>
        LET marker == ChosenMarker(file.chars, m_StrictParsing)
            fx == findXRef(file, m_StrictParsing, marker, IsPdfFile(file).magicOffset)
        IN  IF marker = -1
            THEN pc' = "idle" /\ perr' = Err("InvalidEOFToken", "")
            ELSE IF fx.err # "none"
            THEN pc' = "idle" /\ perr' = Err(fx.err, "")
            ELSE /\ pc' = "xref"
                 /\ m_lastEOFOffset' = marker
                 /\ m_XRefOffset' = fx.offset]_vars

\* a Parse of the parser ended with an error other than InvalidPassword
ParseFailed == pc = "idle" /\ perr.code \notin {"none", "InvalidPassword"}

\* C21: when Parse fails with an error other than InvalidPassword the store
\* is empty afterwards, no object inserted before the failure remains, and
\* the parser's trailer, xref entries and incremental-update count are reset
C21_FailureEmptiesStore ==
    ParseFailed =>
        /\ StoreEmpty
        /\ m_Trailer = <<>>
        /\ m_entries = <<>>
        /\ m_IncrementalUpdateCount = 0

-----------------------------------------------------------------------------
(* ReadObjects: properties *)

\* a step in which ReadObjects ran and Parse returned without error
ObjectsRead == pc = "xref" /\ todo = <<>> /\ pc' = "idle" /\ perr'.code = "none"

\* entry i of entries is parsed, in use, with offset 0 and generation 0
ZeroEntry(entries, i) ==
    /\ entries[i + 1].Parsed /\ entries[i + 1].Type = "InUse"
    /\ entries[i + 1].Offset = 0 /\ entries[i + 1].Generation = 0

\* a table of the file spells an in-use entry with offset 0 and generation 0
SpellsZeroEntry(f) ==
    \E o \in DOMAIN f.sections :
        \E k \in 1..Len(f.sections[o].subs) :
            \E j \in 1..Len(f.sections[o].subs[k].entries) :
                LET raw == f.sections[o].subs[k].entries[j]
                IN  raw.type = "n" /\ raw.variant = 0 /\ raw.generation = 0

\* in lenient mode the entry is treated as free and the others are processed
C23_LenientPart ==
    (ObjectsRead /\ ~m_StrictParsing) =>
        \A i \in 0..(Len(m_entries') - 1) :
            LET e == m_entries'[i + 1]
            IN  /\ ZeroEntry(m_entries', i) =>
                    /\ \A r \in DOMAIN m_Objects' : r[1] # i
                    /\ \E r \in FreeSet(m_FreeObjects') : r[1] = i
                /\ (e.Parsed /\ e.Type = "InUse" /\ Loads(file, e.Offset)) =>
                    HasObject(m_Objects', <<i, e.Generation>>)

\* in strict mode the first Parse of such a file ends with the InvalidXRef
\* raised for the entry
C23_StrictPart ==
    (m_StrictParsing /\ SpellsZeroEntry(file) /\ m_Password = "right"
     /\ pc = "idle" /\ parses = 1) =>
        perr = Err("InvalidXRef", "0 offset")

\* C23: a parsed in-use xref entry for object i with offset 0 and generation 0
\* is treated as free in lenient mode (no object i is inserted, i is put on
\* the free list, the remaining entries are processed) and aborts the parse
\* with InvalidXRef in strict mode
C23_ZeroOffsetEntry == [][C23_LenientPart]_vars /\ [](C23_StrictPart)

\* a lenient Parse of the parser ended without error
LenientParsed == ~m_StrictParsing /\ pc = "idle" /\ parses > 0 /\ perr.code = "none"

\* C24: parsing never makes object number 0 a live object: after a lenient
\* parse the store holds no object whose reference has object number 0 and
\* the free list holds no entry for number 0
C24_NoObjectZero ==
    LenientParsed =>
        /\ \A r \in DOMAIN m_Objects : r[1] # 0
        /\ \A r \in FreeSet(m_FreeObjects) : r[1] # 0

\* a step in which ReadObjects ran, after the gate of the encryption let it
\* read the objects
ObjectsLoop ==
    /\ pc = "xref" /\ todo = <<>> /\ pc' = "idle"
    /\ gateEncrypt(PS, file, m_Password).err = NoErr

\* entry i, as the loop over the entries finds it, is parsed and in use at a
\* positive offset
InUseAt(i) ==
    LET e == gateEncrypt(PS, file, m_Password).entries[i + 1]
    IN  e.Parsed /\ e.Type = "InUse" /\ e.Offset > 0

\* the object of such an entry fails to load
BrokenAt(i) == InUseAt(i) /\ ~Loads(file, m_entries[i + 1].Offset)

\* C25: with m_IgnoreBrokenObjects set, as it is in every Parse, an in-use
\* object that fails to load is not inserted into the store, its number goes
\* on the free list and parsing proceeds with the remaining entries without
\* raising; all other in-use objects are still inserted
C25_BrokenObjectFreed ==
    [][(ObjectsLoop /\ \E i \in 0..(Len(m_entries) - 1) : BrokenAt(i)) =>
        /\ perr'.code = "none"
        /\ \A i \in 0..(Len(m_entries) - 1) :
            /\ BrokenAt(i) =>
                /\ \A r \in DOMAIN m_Objects' : r[1] # i
                /\ \E r \in FreeSet(m_FreeObjects') : r[1] = i
            /\ (InUseAt(i) /\ ~BrokenAt(i)) =>
                HasObject(m_Objects', <<i, m_entries[i + 1].Generation>>)]_vars

\* the parser holds an encryption session and the objects were read with it
ReadWithSession == pc = "idle" /\ m_Encrypt # "null" /\ perr.code = "none"

\* the object under reference r was inserted for an in-use xref entry
FromInUseEntry(r) ==
    /\ r[1] < Len(m_entries)
    /\ m_entries[r[1] + 1].Parsed /\ m_entries[r[1] + 1].Type = "InUse"
    /\ m_entries[r[1] + 1].Generation = r[2]

\* the dictionary of that object has Type XRef
TypeXRef(r) == file.objects[m_entries[r[1] + 1].Offset].xref

\* C29: when the trailer has an Encrypt entry, the encryption dictionary
\* object is parsed without a decryptor and is never inserted into the store,
\* every object inserted whose dictionary has Type XRef is one parsed without
\* a decryptor, and every other in-use object inserted carries the session
C29_EncryptionExemptions ==
    ReadWithSession =>
        /\ "Encrypt" \in DOMAIN m_Trailer[1]
        /\ \A r \in DOMAIN m_Objects \cup withEncrypt : r[1] # m_Trailer[1]["Encrypt"].n
        /\ \A r \in DOMAIN m_Objects :
            FromInUseEntry(r) => (r \in withEncrypt <=> ~TypeXRef(r))

\* an encrypted file was read: the encryption dictionary (object 2) is not in
\* the store, object 1, of Type XRef in the revision read, is there without
\* the session and object 4 with it
C29_Witness ==
    /\ ReadWithSession
    /\ m_Trailer[1]["Encrypt"].n = 2
    /\ \A r \in DOMAIN m_Objects : r[1] # 2
    /\ HasObject(m_Objects, <<1, 0>>) /\ FromInUseEntry(<<1, 0>>) /\ TypeXRef(<<1, 0>>)
    /\ <<1, 0>> \notin withEncrypt
    /\ HasObject(m_Objects, <<4, 0>>) /\ FromInUseEntry(<<4, 0>>)
    /\ <<4, 0>> \in withEncrypt

-----------------------------------------------------------------------------
(* The subsections of a table: properties *)

\* the error ReadXRefContents meets in a subsection, as it is spelled in the
\* file, when none of its slots is parsed yet: "none" if there is none
StructuralError(sub) ==
    IF ~sub.numeric THEN "InvalidNumber"
    ELSE IF \/ sub.first < 0 \/ sub.count < 0
            \/ \E j \in 1..Len(sub.entries) :
                   sub.entries[j].type \notin {"n", "f"} \/ ~sub.entries[j].eol
    THEN "InvalidXRef"
    ELSE "none"

\* the subsections of the table startxref points to, none if it points to none
NewestSubs(f) ==
    IF f.num \in DOMAIN f.sections /\ f.sections[f.num].kind = "table"
    THEN f.sections[f.num].subs ELSE <<>>

\* the first subsection of that table with a structural error, 0 if none has
FirstBad(f) ==
    LET bad == { k \in 1..Len(NewestSubs(f)) : StructuralError(NewestSubs(f)[k]) # "none" }
    IN  IF bad = {} THEN 0 ELSE CHOOSE k \in bad : \A j \in bad : k <= j

\* the first Parse of a file with such a subsection has ended
BadTableParsed == pc = "idle" /\ parses = 1 /\ FirstBad(file) # 0

\* in strict mode the parse is aborted with the error of the subsection
C28_StrictPart ==
    (BadTableParsed /\ m_StrictParsing) =>
        perr.code = StructuralError(NewestSubs(file)[FirstBad(file)])

\* in lenient mode the error only ends the loop: Parse does not end with it
C28_LenientPart ==
    (BadTableParsed /\ ~m_StrictParsing) =>
        perr.code \notin {"InvalidXRef", "InvalidNumber"}

\* C28: in strict mode a structural error inside a classical xref subsection
\* (negative first object or count, entry type other than n or f, bad end of
\* line, header that is no number) aborts the parse with that error; only in
\* lenient mode does it merely end the loop over the subsections, and parsing
\* continues with the trailer
C28_StrictSubsectionErrors == C28_StrictPart /\ C28_LenientPart

-----------------------------------------------------------------------------
(* Magic detection: properties *)

\* the offset of the first occurrence of the magic word in chars, -1 if none
FirstMagic(chars) ==
    LET hits == { p \in 0..(Len(chars) - Len(Magic)) :
                    SubSeq(chars, p + 1, p + Len(Magic)) = Magic }
    IN  IF hits = {} THEN -1 ELSE CHOOSE p \in hits : \A q \in hits : p <= q

\* the version written after the magic word at offset p: 0 if it is none of
\* 1.0 to 1.7 and 2.0
VersionAt(chars, p) ==
    LET str == SubSeq(chars, p + Len(Magic) + 1, p + Len(Magic) + 3)
    IN  IF p + Len(Magic) + 3 > Len(chars) THEN 0
        ELSE IF str \in { <<"1", ".", d>> : d \in {"0", "1", "2", "3", "4", "5", "6", "7"} }
                        \cup { <<"2", ".", "0">> }
        THEN GetPdfVersion(str)
        ELSE 0

\* C30: magic detection scans from byte 0 and accepts the file iff the magic
\* word occurs and is followed by a version among 1.0 to 1.7 and 2.0;
\* m_magicOffset is then the offset of the '%' of the first occurrence of the
\* magic word, whatever bytes lead the file, '%' included, and the version is
\* the one written; otherwise Parse fails with InvalidPDF
C30_MagicDetection ==
    ret.op = "IsPdfFile" =>
        LET p == FirstMagic(file.chars)
            accepted == p # -1 /\ VersionAt(file.chars, p) # 0
        IN  /\ ret.found <=> accepted
            /\ accepted => (ret.value = p /\ ret.arg = VersionAt(file.chars, p))
            /\ ~accepted => ret.err = "InvalidPDF"

-----------------------------------------------------------------------------
(* The boundary of the previous revision: properties *)

\* the section of the revision that ends at currOffset: the one the startxref
\* before the EOF marker that ends there points to
RevisionSection(f, currOffset) ==
    f.sections[findXRef(f, FALSE, currOffset - Len(TokEOF), 0).offset]

\* the offsets of the in-use entries that section spells
OwnInUse(sec) ==
    { sec.subs[k].entries[j].variant :
        <<k, j>> \in { x \in (1..Len(sec.subs)) \X (1..2) :
                         /\ x[2] <= Len(sec.subs[x[1]].entries)
                         /\ sec.subs[x[1]].entries[x[2]].type = "n" } }

PositivePrev(sec) == "Prev" \in DOMAIN sec.dict /\ sec.dict["Prev"].n > 0

\* the least element of a set of numbers
Lowest(set) == CHOOSE x \in set : \A y \in set : x <= y

CallerStore == InsertObject(EmptyObjs, <<1, 0>>, VName)

\* C26: TryGetPreviousRevisionOffset(input, currOffset) reads the section of
\* the revision that ends at currOffset without following Prev; it returns
\* false when that revision has no positive Prev or no in-use entry, else
\* true with the lowest offset of that revision's own in-use entries; the
\* store of the caller is unchanged
C26_PreviousRevisionOffset ==
    ret.op = "TryGetPreviousRevisionOffset" =>
        LET sec == RevisionSection(file, ret.arg)
            expected == PositivePrev(sec) /\ OwnInUse(sec) # {}
        IN  /\ ret.err = "none"
            /\ ret.found <=> expected
            /\ expected => ret.value = Lowest(OwnInUse(sec))
            /\ m_Objects = CallerStore

-----------------------------------------------------------------------------
(* The depth of the garbage collector's descent: properties *)

\* the depth cap of the recursive descents, 500 by default, scaled down to the
\* graphs of the model
MaxRecursionDepth == 4

RECURSIVE visitDepth(_, _, _, _), visitDepthChildren(_, _, _, _, _, _)

\* visitObject again, called at the given depth: the set referencedObjects
\* after the visit and the deepest call made, [refs, deepest]
visitDepth(obj, referencedObjects, objs, depth) ==
    CASE obj.type = "Reference" ->
            IF obj.ref \in referencedObjects \/ ~HasObject(objs, obj.ref)
            THEN [refs |-> referencedObjects \cup {obj.ref}, deepest |-> depth]
            ELSE visitDepth(objs[obj.ref], referencedObjects \cup {obj.ref}, objs, depth + 1)
      [] obj.type \in {"Array", "Dictionary"} ->
            visitDepthChildren(obj.items, 1, referencedObjects, objs, depth, depth)
      [] OTHER -> [refs |-> referencedObjects, deepest |-> depth]

visitDepthChildren(items, i, referencedObjects, objs, depth, deepest) ==
    IF i > Len(items) THEN [refs |-> referencedObjects, deepest |-> deepest]
    ELSE LET v == visitDepth(items[i], referencedObjects, objs, depth + 1)
         IN  visitDepthChildren(items, i + 1, v.refs, objs, depth,
                                IF v.deepest > deepest THEN v.deepest ELSE deepest)

\* the deepest call of visitObject in a collection that starts at the trailer
TrailerDepth == visitDepth(trailer, {}, m_Objects, 1).deepest

\* a step that is a call of CollectGarbage on a store with a document
GCCalled == calls' = calls + 1 /\ last'.op = "CollectGarbage" /\ m_Document = "doc"

\* C27: the garbage collector's descent carries the depth cap: CollectGarbage
\* on a graph nested deeper from the trailer than the configured limit fails
\* with RecursionLimit instead of recursing to unbounded depth
C27_GCDepthCap ==
    [][(GCCalled /\ TrailerDepth > MaxRecursionDepth) =>
        last'.err = "RecursionLimit"]_vars

-----------------------------------------------------------------------------
(* The objects of object streams: properties *)

\* the last Parse succeeded
ParsedWell == pc = "idle" /\ parses > 0 /\ perr = NoErr

\* the numbers of the objects the entries give as compressed
CompressedAt == { i \in 0..(Len(m_entries) - 1) :
                    m_entries[i + 1].Parsed /\ m_entries[i + 1].Type = "Compressed" }

\* C31: for every compressed xref entry (object i stored in object stream
\* n), after a successful parse object (i, 0) is in the store and n is among
\* the compressed object streams of the store; the object streams are
\* decoded over the store the loop over all the entries has left
C31_CompressedMaterialized ==
    ParsedWell =>
        \A i \in CompressedAt :
            /\ HasObject(m_Objects, <<i, 0>>)
            /\ m_entries[i + 1].ObjectNumber \in m_compressedObjectStreams

-----------------------------------------------------------------------------
(* Standard14 fonts: properties *)

\* C32: a Standard14 font created with the flag DontEmbed is a simple Type1
\* font, not a CID one, whatever the flag PreferNonCID and whether or not the
\* encoding has a CID mapping
C32_DontEmbedNonCID ==
    (ret.op = "CreateStandard14" /\ "DontEmbed" \in ret.arg.flags) =>
        ret.value.type = "PdfFontType1"

\* the part of C32 that holds: with an encoding that has no CID mapping
C32_WithoutCIDMapping ==
    (ret.op = "CreateStandard14" /\ "DontEmbed" \in ret.arg.flags
     /\ ~ret.arg.hasCIDMapping) =>
        ret.value.type = "PdfFontType1"

-----------------------------------------------------------------------------
(* The end of the xref walk: properties *)

\* the offsets a call of ReadXRefContents can be made with: the number after
\* startxref, and the numbers of Prev in the sections of the file
CallOffsets(f) ==
    {f.num, f.num + m_magicOffset}
    \cup { f.sections[o].dict["Prev"].n :
             o \in { x \in DOMAIN f.sections : "Prev" \in DOMAIN f.sections[x].dict } }

\* what is left of the walk: the calls of ReadXRefContents still to come at
\* most, each with the returns it can leave behind, and the work at hand
Weight(item) == IF item.op = "prev" THEN 2 ELSE 1

RECURSIVE TodoWeight(_)
TodoWeight(items) ==
    IF items = <<>> THEN 0 ELSE Weight(Head(items)) + TodoWeight(Tail(items))

WalkLeft == 4 * Cardinality(CallOffsets(file) \ m_visitedXRefOffsets) + TodoWeight(todo)

\* each step of a walk ends it or leaves less of it: the walk terminates
WalkTerminates == (pc = "xref" /\ pc' = "xref") => WalkLeft' < WalkLeft

\* a classical table is read by ReadXRefContents only: no table is twice
\* among the sections read
NoTableReadTwice ==
    \A i, j \in 1..Len(reads) :
        (i < j /\ file.sections[reads[i]].kind = "table") => reads[i] # reads[j]

\* an xref stream may be read for XRefStm as well: the one a call of
\* ReadXRefContents reads is at the offset of the call, which no call had
StreamReadOnce ==
    (/\ pc = "xref" /\ todo # <<>> /\ Head(todo).op = "contents"
     /\ Len(reads') > Len(reads)
     /\ file.sections[reads'[Len(reads) + 1]].kind = "stream")
    => /\ reads'[Len(reads) + 1] = Head(todo).offset
       /\ Head(todo).offset \notin m_visitedXRefOffsets

\* C33: whatever graph the Prev and XRefStm offsets of the file form, the
\* xref walk terminates, with the merged entries or with an error, and no
\* offset is read more than once through ReadXRefContents
C33_WalkTerminatesOnce ==
    /\ [][WalkTerminates]_vars
    /\ []NoTableReadTwice
    /\ [][StreamReadOnce]_vars

C33_Terminates == [][WalkTerminates]_vars

C33_StreamsOnce == [][StreamReadOnce]_vars

-----------------------------------------------------------------------------
(* The backward search of a token: properties *)

\* the window of the search: the min(range, searchEnd) bytes that end at
\* searchEnd, and the starts of the occurrences of the token inside it
WindowStart(range, searchEnd) == searchEnd - Min(range, searchEnd)

Occurrences(chars, token, range, searchEnd) ==
    { p \in WindowStart(range, searchEnd)..(searchEnd - Len(token)) :
        SubSeq(chars, p + 1, p + Len(token)) = token }

\* C34: findTokenBackward(token, range, searchEnd) leaves the device at the
\* start of the last occurrence of the token inside the window of
\* min(range, searchEnd) bytes ending at searchEnd, an occurrence at the first
\* byte of the window included, and raises an error iff the window has none
C34_BackwardSearch ==
    ret.op = "findTokenBackward" =>
        LET occ == Occurrences(file.chars, TokXRef, ret.arg.range, ret.arg.searchEnd)
        IN  /\ ret.err # "none" <=> occ = {}
            /\ occ # {} => ret.value = Max(occ)

\* the part of C34 that holds: an occurrence past the first byte of the window
C34_PastWindowStart ==
    ret.op = "findTokenBackward" =>
        LET occ == Occurrences(file.chars, TokXRef, ret.arg.range, ret.arg.searchEnd)
        IN  (occ # {} /\ Max(occ) > WindowStart(ret.arg.range, ret.arg.searchEnd))
                => (ret.err = "none" /\ ret.value = Max(occ))

-----------------------------------------------------------------------------
(* The range of object numbers after a parse: properties *)

\* the object numbers of the objects of the store, and those of the free list
LiveNums == { r[1] : r \in DOMAIN m_Objects }

FreeNums == { m_FreeObjects[k][1] : k \in 1..Len(m_FreeObjects) }

\* C35: after a successful parse every object number i with 1 <= i < the
\* number of xref slots is the number of an object of the store or is on the
\* free list, whatever its entry was
C35_UnbrokenRange ==
    ParsedWell => \A i \in 1..(Len(m_entries) - 1) : i \in LiveNums \cup FreeNums

\* the entries C35 fails for: a compressed one, an in-use one with offset 0
\* and a generation that is not 0, a free one at the last generation
LeftOut(i) ==
    LET entry == m_entries[i + 1]
    IN  /\ entry.Parsed
        /\ \/ entry.Type = "Compressed"
           \/ entry.Type = "InUse" /\ entry.Offset = 0 /\ entry.Generation # 0
           \/ entry.Type = "Free" /\ entry.Generation >= MaxXRefGenerationNum

\* the part of C35 that holds: the numbers of all the other entries
C35_OtherEntries ==
    ParsedWell =>
        \A i \in 1..(Len(m_entries) - 1) : ~LeftOut(i) => i \in LiveNums \cup FreeNums

-----------------------------------------------------------------------------
(* The notifications of the observers: properties *)

\* C36: for any sequence of attach and detach calls, BeginAppendStream and
\* EndAppendStream notify, in attach order, exactly the observers that are
\* attached and not since detached; after detach(o), o is notified no more
C36_ObserversNotified ==
    notified.op # "none" => notified.observers = attached

\* no observer was attached while it was attached
NoneTwice ==
    \A i, j \in 1..Len(m_observers) : i # j => m_observers[i] # m_observers[j]

\* the part of C36 that holds: as long as no observer is attached twice the
\* list is the one of the observers attached and not since detached, and a
\* notification calls the observers of the list in its order
C36_AttachedOnce ==
    [][/\ (NoneTwice /\ NoneTwice' /\ m_observers = attached) => m_observers' = attached'
       /\ notified'.op # "none" => notified'.observers = m_observers]_vars

-----------------------------------------------------------------------------
(* The free entries after a parse: properties *)

\* the numbers, 0 left out, whose entry is a free one below the last generation
FreeBelowLast ==
    { i \in 1..(Len(m_entries) - 1) :
        /\ m_entries[i + 1].Parsed /\ m_entries[i + 1].Type = "Free"
        /\ m_entries[i + 1].Generation < MaxXRefGenerationNum }

\* C37: for a parsed free entry of object i, i not 0, with the generation
\* g < 65535, after the parse the free list holds object i with generation g:
\* the next object allocated with the number i gets the generation g
C37_FreeEntryGeneration ==
    ParsedWell =>
        \A i \in FreeBelowLast : <<i, m_entries[i + 1].Generation>> \in FreeSet(m_FreeObjects)

\* what holds instead: the free list holds object i with generation g + 1
C37_NextGeneration ==
    ParsedWell =>
        \A i \in FreeBelowLast :
            /\ <<i, m_entries[i + 1].Generation + 1>> \in FreeSet(m_FreeObjects)
            /\ <<i, m_entries[i + 1].Generation>> \notin FreeSet(m_FreeObjects)

-----------------------------------------------------------------------------
(* The containers of the compressed objects: properties *)

\* C38: in every reachable state, after any parse and any store operations,
\* every number of the compressed object streams is the number of an object
\* (n, 0) of the store, so CollectGarbage dereferences no missing container
\* and always completes
C38_ContainersLive ==
    /\ \A n \in m_compressedObjectStreams : HasObject(m_Objects, <<n, 0>>)
    /\ ~(last.op = "CollectGarbage" /\ last.err = "crash")

-----------------------------------------------------------------------------
(* Numbers in use and numbers free: properties *)

\* C39: in every state reachable by any sequence of store operations, no
\* object number of the free list is the object number of an object of the
\* store: a number is in use or free, never both
C39_InUseOrFree == LiveNums \cap FreeNums = {}

-----------------------------------------------------------------------------
(* The copy of a store: properties *)

\* C40: a store copy-constructed from another store is equivalent to its
\* source: the same set of references, the same free list, unavailable set
\* and object count, and the same compressed object streams, so that
\* RemoveObject and CollectGarbage, which are functions of these, behave on
\* the copy as on the source
C40_CopyEquivalent ==
    [][last'.op = "PdfIndirectObjectList" =>
          /\ DOMAIN m_Objects' = DOMAIN m_Objects
          /\ m_FreeObjects' = m_FreeObjects
          /\ m_unavailableObjects' = m_unavailableObjects
          /\ m_ObjectCount' = m_ObjectCount
          /\ m_compressedObjectStreams' = m_compressedObjectStreams]_vars

\* the part of C40 that holds: all but the compressed object streams, and
\* the values of the objects
C40_CopiedMembers ==
    [][last'.op = "PdfIndirectObjectList" =>
          /\ m_Objects' = m_Objects
          /\ m_FreeObjects' = m_FreeObjects
          /\ m_unavailableObjects' = m_unavailableObjects
          /\ m_ObjectCount' = m_ObjectCount]_vars

====
